---- MODULE Spec2Model ----
(***************************************************************************)
(* Model of the incremental HTTP/1.1 request parser of                     *)
(* internal/request/request.go and internal/headers/headers.go.            *)
(*                                                                         *)
(* Bytes are ASCII codes, byte slices are sequences of codes.  A Headers   *)
(* map is a record [isNil, m] where m is a function from keys to values,   *)
(* so that Go's nil map and an empty, initialised map stay distinct.       *)
(***************************************************************************)
EXTENDS Integers, Sequences, FiniteSets, TLC

(***************************************************************************)
(* Byte literals of the sources.                                           *)
(***************************************************************************)
CRLF == <<13, 10>>
SPACE == <<32>>
COLON == <<58>>
SLASHSEP == <<47>>
HTTP11 == <<72, 84, 84, 80, 47, 49, 46, 49>>
ChunkCap == 1024

(***************************************************************************)
(* Helpers of package bytes.                                               *)
(***************************************************************************)
Min(S) == CHOOSE x \in S : \A y \in S : x <= y

\* bytes.Index: 0-based offset of the first occurrence of sep in s, or -1.
Index(s, sep) ==
    LET hits == {i \in 0..(Len(s) - Len(sep)) : SubSeq(s, i + 1, i + Len(sep)) = sep}
    IN  IF hits = {} THEN -1 ELSE Min(hits)

\* s[from:] with a 0-based offset.
Drop(s, from) == SubSeq(s, from + 1, Len(s))

\* bytes.Cut: split s around the first occurrence of sep.
Cut(s, sep) ==
    LET i == Index(s, sep)
    IN  IF i = -1
        THEN [before |-> s, after |-> <<>>, found |-> FALSE]
        ELSE [before |-> SubSeq(s, 1, i), after |-> Drop(s, i + Len(sep)), found |-> TRUE]

\* unicode.IsSpace on ASCII: \t \n \v \f \r and space.
IsSpaceByte(b) == b \in {9, 10, 11, 12, 13, 32}

\* The value kept as written, optional whitespace included.
TrimSpace_Keep(s) == s

\* bytes.TrimSpace.
TrimSpace(s) ==
    LET keep == {i \in 1..Len(s) : ~IsSpaceByte(s[i])}
    IN  IF keep = {} THEN <<>>
        ELSE SubSeq(s, Min(keep), CHOOSE i \in keep : \A j \in keep : j <= i)

\* The spaces before the name are kept.
TrimLeftSpaces_Keep(s) == s

\* bytes.TrimLeft(s, " ").
TrimLeftSpaces(s) ==
    LET keep == {i \in 1..Len(s) : s[i] # 32}
    IN  IF keep = {} THEN <<>> ELSE SubSeq(s, Min(keep), Len(s))

\* bytes.ToLower on ASCII.
LowerByte(b) == IF b >= 65 /\ b <= 90 THEN b + 32 ELSE b
ToLower(s) == [i \in 1..Len(s) |-> LowerByte(s[i])]

(***************************************************************************)
(* Errors.  Every error is a record [kind, text]; NoError is Go's nil.     *)
(***************************************************************************)
NoError == [kind |-> "nil", text |-> <<>>]
ERROR_PARSING_METHOD_IN_REQUEST_LINE ==
    [kind |-> "invalid request line: parsing method", text |-> <<>>]
ERROR_PARSING_TARGET_IN_REQUEST_LINE ==
    [kind |-> "invalid request line: parsing target", text |-> <<>>]
ERROR_PARSING_HTTP_VERSION_IN_REQUEST_LINE ==
    [kind |-> "invalid request line: parsing HTTP version", text |-> <<>>]
ErrorInvalidMethod(method) == [kind |-> "invalid method", text |-> method]
ErrorInvalidVersion(version) == [kind |-> "Unsupported HTTP Version", text |-> version]
ErrNoColon == [kind |-> "malformed header: no colon found", text |-> <<>>]
ErrSpaceBeforeColon ==
    [kind |-> "malformed header: Found Space Between Key And Colon.", text |-> <<>>]
ErrEmptyKey == [kind |-> "malformed header: empty key", text |-> <<>>]
ErrInvalidCharInKey == [kind |-> "malformed header: invalid characters in key", text |-> <<>>]
\* A non-EOF error of the byte source.
ReadFailure == [kind |-> "read error", text |-> <<>>]

(***************************************************************************)
(* package headers                                                         *)
(***************************************************************************)
EmptyMap == [k \in {} |-> <<>>]
NilHeaders == [isNil |-> TRUE, m |-> EmptyMap]
NewHeaders == [isNil |-> FALSE, m |-> EmptyMap]

\* Every visible ASCII byte but the colon passes.
isTokenChar_Loose(b) == b > 32 /\ b < 127 /\ b # 58

isTokenChar(b) ==
    \/ b >= 97 /\ b <= 122
    \/ b >= 48 /\ b <= 57
    \/ b \in {33, 35, 36, 37, 38, 39, 42, 43, 45, 46, 94, 95, 96, 124, 126}

\* h[keyStr] = val, also when the key is already there.
Combine_Overwrite(h, keyStr, valStr) ==
    [isNil |-> FALSE,
     m |-> [k \in (DOMAIN h.m) \cup {keyStr} |-> IF k = keyStr THEN valStr ELSE h.m[k]]]

\* h[keyStr] = existing + ", " + val, or h[keyStr] = val.
Combine(h, keyStr, valStr) ==
    [isNil |-> FALSE,
     m |-> [k \in (DOMAIN h.m) \cup {keyStr} |->
              IF k = keyStr
              THEN IF keyStr \in DOMAIN h.m THEN h.m[keyStr] \o <<44, 32>> \o valStr
                                            ELSE valStr
              ELSE h.m[k]]]

\* A valid line is reported as having consumed all of the data.
HeadersParse_ConsumeAll(h, data) ==
    LET idx == Index(data, CRLF)
        header == SubSeq(data, 1, idx)
        c == Cut(header, COLON)
        key == c.before
        value == TrimSpace(c.after)
        normalizedKey == ToLower(TrimLeftSpaces(key))
    IN  IF idx = -1 THEN [n |-> 0, done |-> FALSE, err |-> NoError, h |-> h]
        ELSE IF idx = 0 THEN [n |-> 2, done |-> TRUE, err |-> NoError, h |-> h]
        ELSE IF ~c.found THEN [n |-> 0, done |-> FALSE, err |-> ErrNoColon, h |-> h]
        ELSE IF Len(key) = 0 THEN [n |-> 0, done |-> FALSE, err |-> ErrEmptyKey, h |-> h]
        ELSE IF key[Len(key)] = 32
             THEN [n |-> 0, done |-> FALSE, err |-> ErrSpaceBeforeColon, h |-> h]
        ELSE IF \E i \in 1..Len(normalizedKey) : ~isTokenChar(normalizedKey[i])
             THEN [n |-> 0, done |-> FALSE, err |-> ErrInvalidCharInKey, h |-> h]
        ELSE [n |-> Len(data), done |-> FALSE, err |-> NoError,
              h |-> Combine(h, normalizedKey, value)]

\* The key is not checked for being empty or ending in a space.
HeadersParse_KeyUnchecked(h, data) ==
    LET idx == Index(data, CRLF)
        header == SubSeq(data, 1, idx)
        c == Cut(header, COLON)
        key == c.before
        value == TrimSpace(c.after)
        normalizedKey == ToLower(TrimLeftSpaces(key))
    IN  IF idx = -1 THEN [n |-> 0, done |-> FALSE, err |-> NoError, h |-> h]
        ELSE IF idx = 0 THEN [n |-> 2, done |-> TRUE, err |-> NoError, h |-> h]
        ELSE IF ~c.found THEN [n |-> 0, done |-> FALSE, err |-> ErrNoColon, h |-> h]
        ELSE IF \E i \in 1..Len(normalizedKey) : ~isTokenChar(normalizedKey[i])
             THEN [n |-> 0, done |-> FALSE, err |-> ErrInvalidCharInKey, h |-> h]
        ELSE [n |-> idx + 2, done |-> FALSE, err |-> NoError,
              h |-> Combine(h, normalizedKey, value)]

\* A complete line without a colon is taken as "need more data".
HeadersParse_NoColonWaits(h, data) ==
    LET idx == Index(data, CRLF)
        header == SubSeq(data, 1, idx)
        c == Cut(header, COLON)
        key == c.before
        value == TrimSpace(c.after)
        normalizedKey == ToLower(TrimLeftSpaces(key))
    IN  IF idx = -1 THEN [n |-> 0, done |-> FALSE, err |-> NoError, h |-> h]
        ELSE IF idx = 0 THEN [n |-> 2, done |-> TRUE, err |-> NoError, h |-> h]
        ELSE IF ~c.found THEN [n |-> 0, done |-> FALSE, err |-> NoError, h |-> h]
        ELSE IF Len(key) = 0 THEN [n |-> 0, done |-> FALSE, err |-> ErrEmptyKey, h |-> h]
        ELSE IF key[Len(key)] = 32
             THEN [n |-> 0, done |-> FALSE, err |-> ErrSpaceBeforeColon, h |-> h]
        ELSE IF \E i \in 1..Len(normalizedKey) : ~isTokenChar(normalizedKey[i])
             THEN [n |-> 0, done |-> FALSE, err |-> ErrInvalidCharInKey, h |-> h]
        ELSE [n |-> idx + 2, done |-> FALSE, err |-> NoError,
              h |-> Combine(h, normalizedKey, value)]

\* The entry is stored before the key is checked for token characters.
HeadersParse_StoreBeforeCheck(h, data) ==
    LET idx == Index(data, CRLF)
        header == SubSeq(data, 1, idx)
        c == Cut(header, COLON)
        key == c.before
        value == TrimSpace(c.after)
        normalizedKey == ToLower(TrimLeftSpaces(key))
    IN  IF idx = -1 THEN [n |-> 0, done |-> FALSE, err |-> NoError, h |-> h]
        ELSE IF idx = 0 THEN [n |-> 2, done |-> TRUE, err |-> NoError, h |-> h]
        ELSE IF ~c.found THEN [n |-> 0, done |-> FALSE, err |-> ErrNoColon, h |-> h]
        ELSE IF Len(key) = 0 THEN [n |-> 0, done |-> FALSE, err |-> ErrEmptyKey, h |-> h]
        ELSE IF key[Len(key)] = 32
             THEN [n |-> 0, done |-> FALSE, err |-> ErrSpaceBeforeColon, h |-> h]
        ELSE IF \E i \in 1..Len(normalizedKey) : ~isTokenChar(normalizedKey[i])
             THEN [n |-> 0, done |-> FALSE, err |-> ErrInvalidCharInKey,
                   h |-> Combine(h, normalizedKey, value)]
        ELSE [n |-> idx + 2, done |-> FALSE, err |-> NoError,
              h |-> Combine(h, normalizedKey, value)]

\* Headers.Parse: returns n, done, err and the map after the call.
HeadersParse(h, data) ==
    LET idx == Index(data, CRLF)
        header == SubSeq(data, 1, idx)
        c == Cut(header, COLON)
        key == c.before
        value == TrimSpace(c.after)
        normalizedKey == ToLower(TrimLeftSpaces(key))
    IN  IF idx = -1 THEN [n |-> 0, done |-> FALSE, err |-> NoError, h |-> h]
        ELSE IF idx = 0 THEN [n |-> 2, done |-> TRUE, err |-> NoError, h |-> h]
        ELSE IF ~c.found THEN [n |-> 0, done |-> FALSE, err |-> ErrNoColon, h |-> h]
        ELSE IF Len(key) = 0 THEN [n |-> 0, done |-> FALSE, err |-> ErrEmptyKey, h |-> h]
        ELSE IF key[Len(key)] = 32
             THEN [n |-> 0, done |-> FALSE, err |-> ErrSpaceBeforeColon, h |-> h]
        ELSE IF \E i \in 1..Len(normalizedKey) : ~isTokenChar(normalizedKey[i])
             THEN [n |-> 0, done |-> FALSE, err |-> ErrInvalidCharInKey, h |-> h]
        ELSE [n |-> idx + 2, done |-> FALSE, err |-> NoError,
              h |-> Combine(h, normalizedKey, value)]

ErrKeyDoesntExist == [kind |-> "malformed call: Key Doesn't Exist", text |-> <<>>]

\* The key is looked up as given.
HeadersGet_CaseSensitive(h, key) ==
    IF key \in DOMAIN h.m
    THEN [value |-> h.m[key], err |-> NoError]
    ELSE [value |-> <<>>, err |-> ErrKeyDoesntExist]

\* Headers.Get: the value stored under the lower-cased key, or ErrKeyDoesntExist.
HeadersGet(h, key) ==
    IF ToLower(key) \in DOMAIN h.m
    THEN [value |-> h.m[ToLower(key)], err |-> NoError]
    ELSE [value |-> <<>>, err |-> ErrKeyDoesntExist]

(***************************************************************************)
(* package response: the Writer                                            *)
(***************************************************************************)
StateStatusPending == 0
StateHeadersPending == 1
StateBodyPending == 2

StatusOK == 200
StatusBadRequest == 400
StatusInternalServerError == 500

\* fmt's %d of a non-negative int.
RECURSIVE Itoa(_)
Itoa(n) == IF n < 10 THEN <<48 + n>> ELSE Itoa(n \div 10) \o <<48 + (n % 10)>>

\* The statusLine of response.WriteStatusLine.
statusLine(statusCode) ==
    IF statusCode = StatusOK
    THEN <<72, 84, 84, 80, 47, 49, 46, 49, 32, 50, 48, 48, 32, 79, 75, 13, 10>>
    ELSE IF statusCode = StatusBadRequest
    THEN <<72, 84, 84, 80, 47, 49, 46, 49, 32, 52, 48, 48, 32, 66, 97, 100, 32, 82, 101, 113, 117, 101, 115, 116, 13, 10>>
    ELSE IF statusCode = StatusInternalServerError
    THEN <<72, 84, 84, 80, 47, 49, 46, 49, 32, 53, 48, 48, 32, 73, 110, 116, 101, 114, 110, 97, 108, 32, 83, 101, 114, 118, 101, 114, 32, 69, 114, 114, 111, 114, 13, 10>>
    ELSE <<72, 84, 84, 80, 47, 49, 46, 49, 32>> \o Itoa(statusCode) \o <<32, 13, 10>>

\* The line of response.WriteHeaders: "Key: Value\r\n".
headerLine(k, v) == k \o <<58, 32>> \o v \o CRLF

ErrCannotWriteStatusLine(state) ==
    [kind |-> "cannot write status line: current state is %v", text |-> Itoa(state)]
ErrCannotWriteHeaders(state) ==
    [kind |-> "cannot write header line: current state is %v", text |-> Itoa(state)]
ErrCannotWriteBody == [kind |-> "cannot write body: headers not written yet", text |-> <<>>]
\* An error of the underlying io.Writer.
WriteFailure == [kind |-> "write error", text |-> <<>>]

(***************************************************************************)
(* package request                                                         *)
(***************************************************************************)
requestStateInitialized == "Initialized"
requestStateDone == "Done"
requestStateParsingHeaders == "ParsingHeaders"

NoRequestLine == [HttpVersion |-> <<>>, RequestTarget |-> <<>>, Method |-> <<>>]

newRequest ==
    [RequestLine |-> NoRequestLine, Headers |-> NilHeaders, state |-> requestStateInitialized]

\* string(rest) != "HTTP/1.1", negated.
IsSupportedVersion_AnyHTTP(rest) == Len(rest) >= 5 /\ SubSeq(rest, 1, 5) = SubSeq(HTTP11, 1, 5)
IsSupportedVersion(rest) == rest = HTTP11

\* The "Old Way" of the request line: a missing CRLF is an error.
parseRequestLine_NoWait(data) ==
    LET l == Cut(data, CRLF)
        line == l.before
        m == Cut(line, SPACE)
        method == m.before
        t == Cut(m.after, SPACE)
        target == t.before
        rest == t.after
        v == Cut(rest, SLASHSEP)
        fail(e) == [rl |-> NoRequestLine, n |-> 0, err |-> e]
    IN  IF ~l.found THEN fail(ERROR_PARSING_METHOD_IN_REQUEST_LINE)
        ELSE IF ~m.found THEN fail(ERROR_PARSING_METHOD_IN_REQUEST_LINE)
        ELSE IF ~t.found THEN fail(ERROR_PARSING_TARGET_IN_REQUEST_LINE)
        ELSE IF ~IsSupportedVersion(rest) THEN fail(ErrorInvalidVersion(rest))
        ELSE IF ~v.found THEN fail(ERROR_PARSING_HTTP_VERSION_IN_REQUEST_LINE)
        ELSE IF \E i \in 1..Len(method) : method[i] < 65 \/ method[i] > 90
             THEN fail(ErrorInvalidMethod(method))
        ELSE [rl |-> [HttpVersion |-> v.after, RequestTarget |-> target, Method |-> method],
              n |-> Len(line) + 2, err |-> NoError]

\* A request line whose second delimiter is missing is taken as "need more data".
parseRequestLine_Lenient(data) ==
    LET l == Cut(data, CRLF)
        line == l.before
        m == Cut(line, SPACE)
        method == m.before
        t == Cut(m.after, SPACE)
        target == t.before
        rest == t.after
        v == Cut(rest, SLASHSEP)
        fail(e) == [rl |-> NoRequestLine, n |-> 0, err |-> e]
    IN  IF ~l.found THEN fail(NoError)
        ELSE IF ~m.found THEN fail(ERROR_PARSING_METHOD_IN_REQUEST_LINE)
        ELSE IF ~t.found THEN fail(NoError)
        ELSE IF ~IsSupportedVersion(rest) THEN fail(ErrorInvalidVersion(rest))
        ELSE IF ~v.found THEN fail(ERROR_PARSING_HTTP_VERSION_IN_REQUEST_LINE)
        ELSE IF \E i \in 1..Len(method) : method[i] < 65 \/ method[i] > 90
             THEN fail(ErrorInvalidMethod(method))
        ELSE [rl |-> [HttpVersion |-> v.after, RequestTarget |-> target, Method |-> method],
              n |-> Len(line) + 2, err |-> NoError]

\* The CRLF is left out of the count of consumed bytes.
parseRequestLine_LineOnly(data) ==
    LET l == Cut(data, CRLF)
        line == l.before
        m == Cut(line, SPACE)
        method == m.before
        t == Cut(m.after, SPACE)
        target == t.before
        rest == t.after
        v == Cut(rest, SLASHSEP)
        fail(e) == [rl |-> NoRequestLine, n |-> 0, err |-> e]
    IN  IF ~l.found THEN fail(NoError)
        ELSE IF ~m.found THEN fail(ERROR_PARSING_METHOD_IN_REQUEST_LINE)
        ELSE IF ~t.found THEN fail(ERROR_PARSING_TARGET_IN_REQUEST_LINE)
        ELSE IF ~IsSupportedVersion(rest) THEN fail(ErrorInvalidVersion(rest))
        ELSE IF ~v.found THEN fail(ERROR_PARSING_HTTP_VERSION_IN_REQUEST_LINE)
        ELSE IF \E i \in 1..Len(method) : method[i] < 65 \/ method[i] > 90
             THEN fail(ErrorInvalidMethod(method))
        ELSE [rl |-> [HttpVersion |-> v.after, RequestTarget |-> target, Method |-> method],
              n |-> Len(line), err |-> NoError]

\* parseRequestLine: returns the request line, the bytes consumed and the error.
parseRequestLine(data) ==
    LET l == Cut(data, CRLF)
        line == l.before
        m == Cut(line, SPACE)
        method == m.before
        t == Cut(m.after, SPACE)
        target == t.before
        rest == t.after
        v == Cut(rest, SLASHSEP)
        fail(e) == [rl |-> NoRequestLine, n |-> 0, err |-> e]
    IN  IF ~l.found THEN fail(NoError)
        ELSE IF ~m.found THEN fail(ERROR_PARSING_METHOD_IN_REQUEST_LINE)
        ELSE IF ~t.found THEN fail(ERROR_PARSING_TARGET_IN_REQUEST_LINE)
        ELSE IF ~IsSupportedVersion(rest) THEN fail(ErrorInvalidVersion(rest))
        ELSE IF ~v.found THEN fail(ERROR_PARSING_HTTP_VERSION_IN_REQUEST_LINE)
        ELSE IF \E i \in 1..Len(method) : method[i] < 65 \/ method[i] > 90
             THEN fail(ErrorInvalidMethod(method))
        ELSE [rl |-> [HttpVersion |-> v.after, RequestTarget |-> target, Method |-> method],
              n |-> Len(line) + 2, err |-> NoError]

\* parseSingle that does not leave the headers state on the blank line.
parseSingle_StayInHeaders(r, p) ==
    IF r.state = requestStateInitialized
    THEN LET x == parseRequestLine(p)
         IN  IF x.err # NoError THEN [r |-> r, n |-> 0, err |-> x.err]
             ELSE IF x.n = 0 THEN [r |-> r, n |-> 0, err |-> NoError]
             ELSE [r |-> [r EXCEPT !.RequestLine = x.rl,
                                   !.state = requestStateParsingHeaders],
                   n |-> x.n, err |-> NoError]
    ELSE IF r.state = requestStateParsingHeaders
    THEN LET h0 == IF r.Headers.isNil THEN NewHeaders ELSE r.Headers
             x == HeadersParse(h0, p)
             r1 == [r EXCEPT !.Headers = x.h]
         IN  IF x.err # NoError THEN [r |-> r1, n |-> 0, err |-> x.err]
             ELSE IF x.n = 0 THEN [r |-> r1, n |-> 0, err |-> NoError]
             ELSE [r |-> r1, n |-> x.n, err |-> NoError]
    ELSE [r |-> r, n |-> 0, err |-> NoError]

\* Request.parseSingle: one unit; returns the request after the call, n and err.
parseSingle(r, p) ==
    IF r.state = requestStateInitialized
    THEN LET x == parseRequestLine(p)
         IN  IF x.err # NoError THEN [r |-> r, n |-> 0, err |-> x.err]
             ELSE IF x.n = 0 THEN [r |-> r, n |-> 0, err |-> NoError]
             ELSE [r |-> [r EXCEPT !.RequestLine = x.rl,
                                   !.state = requestStateParsingHeaders],
                   n |-> x.n, err |-> NoError]
    ELSE IF r.state = requestStateParsingHeaders
    THEN LET h0 == IF r.Headers.isNil THEN NewHeaders ELSE r.Headers
             x == HeadersParse(h0, p)
             r1 == [r EXCEPT !.Headers = x.h]
         IN  IF x.err # NoError THEN [r |-> r1, n |-> 0, err |-> x.err]
             ELSE IF x.n = 0 THEN [r |-> r1, n |-> 0, err |-> NoError]
             ELSE [r |-> IF x.done THEN [r1 EXCEPT !.state = requestStateDone] ELSE r1,
                   n |-> x.n, err |-> NoError]
    ELSE [r |-> r, n |-> 0, err |-> NoError]

\* Request.parse: the loop over the units of p, from offset totalBytesParsed;
\* parseNext is the loop body after the call of parseSingle returned s.
RECURSIVE parseFrom(_, _, _)
\* An error of parseSingle is taken as "wait for more chunks".
parseNext_SwallowError(s, p, totalBytesParsed) ==
    IF s.err # NoError THEN [r |-> s.r, n |-> totalBytesParsed, err |-> NoError]
    ELSE IF s.n = 0 THEN [r |-> s.r, n |-> totalBytesParsed, err |-> NoError]
    ELSE parseFrom(s.r, p, totalBytesParsed + s.n)

\* parse returns after the first unit instead of looping.
parseNext_OneUnit(s, p, totalBytesParsed) ==
    IF s.err # NoError THEN [r |-> s.r, n |-> totalBytesParsed, err |-> s.err]
    ELSE [r |-> s.r, n |-> totalBytesParsed + s.n, err |-> NoError]

parseNext(s, p, totalBytesParsed) ==
    IF s.err # NoError THEN [r |-> s.r, n |-> totalBytesParsed, err |-> s.err]
    ELSE IF s.n = 0 THEN [r |-> s.r, n |-> totalBytesParsed, err |-> NoError]
    ELSE parseFrom(s.r, p, totalBytesParsed + s.n)

parseFrom(r, p, totalBytesParsed) ==
    IF r.state = requestStateDone \/ totalBytesParsed >= Len(p)
    THEN [r |-> r, n |-> totalBytesParsed, err |-> NoError]
    ELSE parseNext(parseSingle(r, Drop(p, totalBytesParsed)), p, totalBytesParsed)

parse(r, p) == parseFrom(r, p, 0)

\* The buffer is emptied after every parse, consumed or not.
Slide_DropAll(b, numBytesParsed) == <<>>

\* The parsed bytes are left in the buffer.
Slide_KeepAll(b, numBytesParsed) == b

\* if numBytesParsed > 0 { buf = buf[numBytesParsed:] }
Slide(b, numBytesParsed) == IF numBytesParsed > 0 THEN Drop(b, numBytesParsed) ELSE b

(***************************************************************************)
(* The byte streams the parser is run on.  A stream is described by an     *)
(* input record and encoded to bytes by Encode: a request line made of     *)
(* parts joined by single spaces, field lines, and an ending.              *)
(***************************************************************************)
MaxFields == 2
MaxChunk == 8

GET == <<71, 69, 84>>
get == <<103, 101, 116>>
HTTP10 == <<72, 84, 84, 80, 47, 49, 46, 48>>
HTTP20 == <<72, 84, 84, 80, 47, 50, 46, 48>>
ContentLengthName == <<99, 111, 110, 116, 101, 110, 116, 45, 108, 101, 110, 103, 116, 104>>
ContentLengthMixed == <<67, 111, 110, 116, 101, 110, 116, 45, 76, 101, 110, 103, 116, 104>>

Methods == {GET, get}
Targets == {<<47>>, <<47, 97>>}
Versions == {HTTP11, HTTP10, HTTP20}

\* Request lines with three parts, and lines with missing, empty or extra parts.
ThreeParts == {<<m, t, v>> : m \in Methods, t \in Targets, v \in Versions}
OddParts ==
    { <<>>, <<GET>>, <<<<47>>, HTTP11>>, <<<<>>, <<47>>, HTTP11>>, <<GET, <<>>, HTTP11>>,
      <<GET, <<47>>, <<120>>, HTTP11>>, <<<<71, 49>>, <<47>>, HTTP11>> }
RichParts == {<<GET, <<47>>, HTTP11>>}

Field(lead, name, gap, colon, ows1, value, ows2) ==
    [lead |-> lead, name |-> name, gap |-> gap, colon |-> colon,
     ows1 |-> ows1, value |-> value, ows2 |-> ows2]

ValidFieldLines ==
    { Field(<<>>, <<97>>, <<>>, TRUE, <<32>>, <<98>>, <<>>),              \* "a: b"
      Field(<<>>, <<65>>, <<>>, TRUE, <<>>, <<99, 58, 100>>, <<32, 9>>),  \* "A:c:d \t"
      Field(<<>>, ContentLengthName, <<>>, TRUE, <<32>>, <<49>>, <<>>),   \* "content-length: 1"
      Field(<<>>, ContentLengthMixed, <<>>, TRUE, <<32>>, <<120>>, <<>>) } \* "Content-Length: x"

MalformedFieldLines ==
    { Field(<<>>, <<97>>, <<>>, FALSE, <<32>>, <<98>>, <<>>),             \* "a b"
      Field(<<>>, <<97>>, <<32>>, TRUE, <<32>>, <<98>>, <<>>),            \* "a : b"
      Field(<<>>, <<>>, <<>>, TRUE, <<32>>, <<98>>, <<>>),                \* ": b"
      Field(<<>>, <<97, 64>>, <<>>, TRUE, <<32>>, <<98>>, <<>>) }         \* "a@: b"

FieldLines == ValidFieldLines \cup MalformedFieldLines

\* Up to MaxFields field lines; a malformed line, if any, is the last one
\* (the ending still follows it in the stream).
FieldSeqs ==
    {fs \in UNION {[1..n -> FieldLines] : n \in 0..MaxFields} :
        \A i \in 1..(Len(fs) - 1) : fs[i] \in ValidFieldLines}

\* After the field lines: the blank line and the bytes after it, or bytes of
\* an unterminated line, after which the stream ends.
Endings ==
    { <<TRUE, <<>>>>, <<TRUE, <<120>>>>, <<TRUE, <<120, 121>>>>,
      <<FALSE, <<>>>>, <<FALSE, <<97, 58, 98, 13>>>> }

Input(parts, rlTerm, fields, ending) ==
    [parts |-> parts, rlTerm |-> rlTerm, fields |-> fields,
     blank |-> ending[1], tail |-> ending[2]]

Inputs ==
    {Input(p, TRUE, fs, e) : p \in RichParts, fs \in FieldSeqs, e \in Endings}
    \cup {Input(p, TRUE, fs, e) : p \in ThreeParts \cup OddParts,
                                   fs \in {<<>>, <<Field(<<>>, <<97>>, <<>>, TRUE, <<32>>, <<98>>, <<>>)>>},
                                   e \in {<<TRUE, <<>>>>, <<FALSE, <<>>>>}}
    \cup {Input(p, FALSE, <<>>, <<FALSE, <<>>>>) : p \in ThreeParts \cup OddParts}

RECURSIVE JoinSP(_)
JoinSP(parts) ==
    IF Len(parts) = 0 THEN <<>>
    ELSE IF Len(parts) = 1 THEN parts[1]
    ELSE parts[1] \o SPACE \o JoinSP(Tail(parts))

FieldBytes(f) ==
    f.lead \o f.name \o f.gap \o (IF f.colon THEN COLON ELSE <<>>)
        \o f.ows1 \o f.value \o f.ows2

RECURSIVE FieldsBytes(_)
FieldsBytes(fs) ==
    IF Len(fs) = 0 THEN <<>> ELSE FieldBytes(Head(fs)) \o CRLF \o FieldsBytes(Tail(fs))

Encode(in) ==
    JoinSP(in.parts) \o (IF in.rlTerm THEN CRLF ELSE <<>>) \o FieldsBytes(in.fields)
        \o (IF in.blank THEN CRLF ELSE <<>>) \o in.tail

(***************************************************************************)
(* RequestFromReader run on a byte source that holds data and hands it out *)
(* in chunks of any size.                                                  *)
(***************************************************************************)
VARIABLES
    input,      \* how the stream was built (never changes)
    data,       \* the bytes the source will deliver
    pos,        \* bytes the source has delivered so far
    buf,        \* RequestFromReader: read but unconsumed bytes
    req,        \* RequestFromReader: the Request being filled
    readErr,    \* RequestFromReader: err of the last Read ("nil", "EOF", "error")
    pc,         \* "loop" while in the read loop, "returned" after return,
                \* "idle" when RequestFromReader is not called at all
    ret         \* the returned pair: isNil (no *Request) and err

\* Calls made directly on a Headers value, as headers_test.go makes them.
VARIABLES
    hdrs,       \* the Headers map the calls are made on
    off,        \* Parse is called on data[off:]
    hret        \* the last call: op, its argument and what it returned

\* A response.Writer and the io.Writer under it.
VARIABLES
    wstate,     \* Writer.state
    sent,       \* the pieces the underlying io.Writer received, in order
    wret,       \* the last call on the Writer: op and the error it returned
    wcalls      \* calls made on the Writer so far

\* A Server after Serve returned: the listener, the accept loop started by
\* Serve, a caller of Close, and the connections peers open.
VARIABLES
    isClosed,   \* Server.isClosed
    listener,   \* "open" or "closed" ("none" when no Server exists)
    lpc,        \* listen: "accept", "failed" (Accept returned an error),
                \* "dispatch" (Accept returned held), "exited"
    held,       \* the connection Accept returned and listen has not yet dispatched
    cpc,        \* Close: "idle" (not called), "stored" (flag set), "returned"
    logged,     \* Accept errors listen has logged
    conns       \* per connection: the peer's side and the worker's locals

\* getLinesChannel(f) and the loop of main that ranges over its channel.
VARIABLES
    src,        \* the bytes f holds (never changes)
    rd,         \* bytes f.Read has returned so far
    rerr,       \* err of the last f.Read ("nil", "EOF", "error")
    chunk,      \* the part of data[:n] the inner loop has not looked at yet
    str,        \* the line being put together
    chan,       \* the strings buffered in the channel s
    chanClosed, \* close(s) has run
    fClosed,    \* f.Close() has run
    gpc,        \* the goroutine: "read", "scan", "send", "last", "defer",
                \* "done" ("idle" when getLinesChannel is not called)
    lines,      \* the strings main has received, in order
    mpc         \* main's range loop: "range", "done" ("idle" without it)

hvars == <<hdrs, off, hret>>
wvars == <<wstate, sent, wret, wcalls>>
svars == <<isClosed, listener, lpc, held, cpc, logged, conns>>
lvars == <<src, rd, rerr, chunk, str, chan, chanClosed, fClosed, gpc, lines, mpc>>
vars == <<input, data, pos, buf, req, readErr, pc, ret, hdrs, off, hret, wstate, sent, wret, wcalls,
          isClosed, listener, lpc, held, cpc, logged, conns,
          src, rd, rerr, chunk, str, chan, chanClosed, fClosed, gpc, lines, mpc>>

NoCall == [op |-> "none", arg |-> <<>>, n |-> 0, done |-> FALSE, err |-> NoError, value |-> <<>>]
NoWriterCall == [op |-> "none", n |-> 0, err |-> NoError]

\* No direct call on a Headers value is made.
HeadersIdle == hdrs = NilHeaders /\ off = 0 /\ hret = NoCall
\* No Writer is in use: the state is that of a Writer just made by NewWriter.
WriterIdle == wstate = StateStatusPending /\ sent = <<>> /\ wret = NoWriterCall /\ wcalls = 0
\* Two connections, numbered in the order peers open them.
ConnIds == {1, 2}
\* A connection no peer has opened yet.
NoConn ==
    [stream |-> <<>>, sent |-> 0, peerClosed |-> FALSE, wpc |-> "none", rpos |-> 0,
     buf |-> <<>>, req |-> newRequest, err |-> NoError, handled |-> 0,
     out |-> [status |-> <<>>, fields |-> {}, blank |-> <<>>, body |-> <<>>],
     closes |-> 0]
\* No Server exists.
ServerIdle ==
    /\ isClosed = FALSE /\ listener = "none" /\ lpc = "idle" /\ held = 0
    /\ cpc = "idle" /\ logged = 0 /\ conns = [c \in ConnIds |-> NoConn]
\* getLinesChannel is not called.
LinesIdle ==
    /\ src = <<>> /\ rd = 0 /\ rerr = "nil" /\ chunk = <<>> /\ str = <<>>
    /\ chan = <<>> /\ chanClosed = FALSE /\ fClosed = FALSE /\ gpc = "idle"
    /\ lines = <<>> /\ mpc = "idle"
\* RequestFromReader is not called.
ParserIdle ==
    /\ pos = 0 /\ buf = <<>> /\ req = newRequest /\ readErr = "nil"
    /\ pc = "idle" /\ ret = [isNil |-> TRUE, err |-> NoError]

Init ==
    /\ input \in Inputs
    /\ data = Encode(input)
    /\ pos = 0
    /\ buf = <<>>
    /\ req = newRequest
    /\ readErr = "nil"
    /\ pc = "loop"
    /\ ret = [isNil |-> TRUE, err |-> NoError]
    /\ HeadersIdle /\ WriterIdle /\ ServerIdle /\ LinesIdle

\* The sizes a Read may deliver when left bytes remain in the source: up to
\* MaxChunk bytes, or all that remains (at most the 1024 bytes of chunk).
ChunkSizes(left) ==
    {n \in 1..MaxChunk : n <= left} \cup ({IF left < ChunkCap THEN left ELSE ChunkCap} \ {0})

\* The loop goes on to the next Read also when parse has reached Done.
ReadChunk_ReadOn ==
    /\ pc = "loop"
    /\ \E n \in ChunkSizes(Len(data) - pos) :
         LET b1 == buf \o SubSeq(data, pos + 1, pos + n)
             x == parse(req, b1)
         IN  /\ pos' = pos + n
             /\ readErr' = "nil"
             /\ req' = x.r
             /\ IF x.err # NoError
                THEN /\ buf' = b1
                     /\ pc' = "returned"
                     /\ ret' = [isNil |-> TRUE, err |-> x.err]
                ELSE /\ buf' = Slide(b1, x.n)
                     /\ UNCHANGED <<pc, ret>>
    /\ UNCHANGED <<input, data, hvars, wvars, svars, lvars>>

\* One loop iteration in which Read delivers n > 0 bytes: append, parse,
\* slide the buffer, and return when parse fails or the state is Done.
\* (A Read that returns n > 0 together with io.EOF takes the same path.)
ReadChunk ==
    /\ pc = "loop"
    /\ \E n \in ChunkSizes(Len(data) - pos) :
         LET b1 == buf \o SubSeq(data, pos + 1, pos + n)
             x == parse(req, b1)
         IN  /\ pos' = pos + n
             /\ readErr' = "nil"
             /\ req' = x.r
             /\ IF x.err # NoError
                THEN /\ buf' = b1
                     /\ pc' = "returned"
                     /\ ret' = [isNil |-> TRUE, err |-> x.err]
                ELSE /\ buf' = Slide(b1, x.n)
                     /\ IF x.r.state = requestStateDone
                        THEN /\ pc' = "returned"
                             /\ ret' = [isNil |-> FALSE, err |-> NoError]
                        ELSE UNCHANGED <<pc, ret>>
    /\ UNCHANGED <<input, data, hvars, wvars, svars, lvars>>

\* At EOF the bytes left in the buffer are parsed as if a CRLF ended them.
ReadEOF_Flush ==
    /\ pc = "loop"
    /\ pos = Len(data)
    /\ readErr' = "EOF"
    /\ req' = [parse(req, buf \o CRLF).r EXCEPT !.state = requestStateDone]
    /\ pc' = "returned"
    /\ ret' = [isNil |-> FALSE, err |-> NoError]
    /\ UNCHANGED <<input, data, pos, buf, hvars, wvars, svars, lvars>>

\* At EOF the loop goes on to the next Read.
ReadEOF_Retry ==
    /\ pc = "loop"
    /\ pos = Len(data)
    /\ readErr' = "EOF"
    /\ UNCHANGED <<input, data, pos, buf, req, pc, ret, hvars, wvars, svars, lvars>>

\* Read returns 0 bytes and io.EOF: the state is forced to Done and the
\* Request is returned.
ReadEOF ==
    /\ pc = "loop"
    /\ pos = Len(data)
    /\ readErr' = "EOF"
    /\ req' = [req EXCEPT !.state = requestStateDone]
    /\ pc' = "returned"
    /\ ret' = [isNil |-> FALSE, err |-> NoError]
    /\ UNCHANGED <<input, data, pos, buf, hvars, wvars, svars, lvars>>

\* Read returns an error other than io.EOF.
ReadFail ==
    /\ pc = "loop"
    /\ readErr' = "error"
    /\ pc' = "returned"
    /\ ret' = [isNil |-> TRUE, err |-> ReadFailure]
    /\ UNCHANGED <<input, data, pos, buf, req, hvars, wvars, svars, lvars>>

Next == ReadChunk \/ ReadEOF \/ ReadFail

Spec == Init /\ [][Next]_vars

\* Every Read returns: with bytes, or with io.EOF once the stream is used up.
\* This is weak fairness of ReadReturns, which is enabled exactly in the
\* states with pc = "loop" (bytes are left, or io.EOF is due).
ReadReturns == ReadChunk \/ ReadEOF
SpecReadsFair == Spec /\ ([]<>(pc # "loop") \/ []<><<ReadReturns>>_vars)

TypeOK ==
    /\ pc \in {"loop", "returned", "idle"}
    /\ readErr \in {"nil", "EOF", "error"}
    /\ pos \in 0..Len(data)
    /\ req.state \in {requestStateInitialized, requestStateParsingHeaders, requestStateDone}

(***************************************************************************)
(* Headers.Parse and Headers.Get called directly: Parse on data, then on   *)
(* data[n:], and so on, and Get at any time.  The data is a block of field *)
(* lines, built like the field lines of a stream.                          *)
(***************************************************************************)
MaxLines == 3

ValidHeaderLines ==
    { Field(<<>>, <<97>>, <<>>, TRUE, <<32>>, <<98>>, <<>>),              \* "a: b"
      Field(<<>>, <<65>>, <<>>, TRUE, <<>>, <<99, 58, 100>>, <<32, 9>>),  \* "A:c:d \t"
      Field(<<32>>, <<97>>, <<>>, TRUE, <<32>>, <<101>>, <<>>),           \* " a: e"
      Field(<<>>, <<65, 98>>, <<>>, TRUE, <<>>, <<102>>, <<>>),           \* "Ab:f"
      Field(<<>>, <<98>>, <<>>, TRUE, <<32>>, <<>>, <<>>) }               \* "b: "

MalformedHeaderLines ==
    { Field(<<>>, <<97>>, <<>>, FALSE, <<32>>, <<98>>, <<>>),             \* "a b"
      Field(<<>>, <<97>>, <<32>>, TRUE, <<32>>, <<98>>, <<>>),            \* "a : b"
      Field(<<>>, <<>>, <<>>, TRUE, <<32>>, <<98>>, <<>>),                \* ": b"
      Field(<<>>, <<>>, <<32>>, TRUE, <<32>>, <<98>>, <<>>),              \* " : b"
      Field(<<>>, <<97, 64>>, <<>>, TRUE, <<32>>, <<98>>, <<>>),          \* "a@: b"
      Field(<<>>, <<97, 32, 98>>, <<>>, TRUE, <<32>>, <<99>>, <<>>),      \* "a b: c"
      Field(<<>>, <<97, 64>>, <<32>>, TRUE, <<32>>, <<98>>, <<>>) }       \* "a@ : b"

HeaderLines == ValidHeaderLines \cup MalformedHeaderLines

\* Up to MaxLines lines; a malformed line, if any, is the last one.
HeaderSeqs ==
    {fs \in UNION {[1..n -> HeaderLines] : n \in 0..MaxLines} :
        \A i \in 1..(Len(fs) - 1) : fs[i] \in ValidHeaderLines}

\* After the lines: the blank line, nothing, or an unterminated line.
HeaderEndings == { <<TRUE, <<>>>>, <<FALSE, <<>>>>, <<FALSE, <<97, 58, 98, 13>>>> }

HeaderInputs == {Input(<<>>, FALSE, fs, e) : fs \in HeaderSeqs, e \in HeaderEndings}

\* The keys Get is called with.
LookupKeys == { <<97>>, <<65>>, <<97, 66>>, <<65, 66>> }

InitHeaders ==
    /\ input \in HeaderInputs
    /\ data = Encode(input)
    /\ hdrs = NewHeaders
    /\ off = 0
    /\ hret = NoCall
    /\ ParserIdle /\ WriterIdle /\ ServerIdle /\ LinesIdle

\* n, done, err := h.Parse(data[off:]), and the caller moves on by n.
ParseCall ==
    /\ LET x == HeadersParse(hdrs, Drop(data, off))
       IN  /\ hdrs' = x.h
           /\ off' = off + x.n
           /\ hret' = [op |-> "Parse", arg |-> Drop(data, off), n |-> x.n,
                       done |-> x.done, err |-> x.err, value |-> <<>>]
    /\ UNCHANGED <<input, data, pos, buf, req, readErr, pc, ret, wvars, svars, lvars>>

\* value, err := h.Get(key)
GetCall ==
    /\ \E key \in LookupKeys :
         LET g == HeadersGet(hdrs, key)
         IN  hret' = [op |-> "Get", arg |-> key, n |-> 0,
                      done |-> FALSE, err |-> g.err, value |-> g.value]
    /\ UNCHANGED <<input, data, pos, buf, req, readErr, pc, ret, hdrs, off, wvars, svars, lvars>>

NextHeaders == ParseCall \/ GetCall

SpecHeaders == InitHeaders /\ [][NextHeaders]_vars

(***************************************************************************)
(* A response.Writer made by NewWriter over an io.Writer, and any sequence *)
(* of calls of its three methods.  A Write of the io.Writer takes all of p *)
(* and returns nil, or takes fewer bytes (possibly none) and returns an    *)
(* error.  What the io.Writer took is kept as pieces, one per Write that   *)
(* took bytes: the part of the response the bytes belong to, the bytes,    *)
(* and whether all of p was taken.                                         *)
(***************************************************************************)
MaxCalls == 4
MaxShort == 1

StatusCodes == {StatusOK, StatusBadRequest, StatusInternalServerError, 404}
HeaderArgs ==
    { NewHeaders,
      Combine(NewHeaders, <<97>>, <<98>>),
      Combine(Combine(NewHeaders, <<97>>, <<98>>), <<99>>, <<100>>) }
Bodies == { <<>>, <<104, 105>> }

\* The results n, err a Write(p) of the io.Writer can have.
Writes(p) ==
    {[n |-> Len(p), err |-> NoError]}
        \cup {[n |-> k, err |-> WriteFailure] : k \in {j \in 0..MaxShort : j < Len(p)}}

\* The piece a Write(p) with result w leaves in the io.Writer.
Received(part, p, w) ==
    IF w.n = 0 THEN <<>>
    ELSE <<[part |-> part, bytes |-> SubSeq(p, 1, w.n), whole |-> w.err = NoError]>>

\* The orders in which range may visit the keys of a map.
Orders(m) ==
    {o \in [1..Cardinality(DOMAIN m) -> DOMAIN m] :
        \A i, j \in 1..Cardinality(DOMAIN m) : i # j => o[i] # o[j]}

InitWriter ==
    /\ wstate = StateStatusPending
    /\ sent = <<>>
    /\ wret = NoWriterCall
    /\ wcalls = 0
    /\ input = Input(<<>>, FALSE, <<>>, <<FALSE, <<>>>>)
    /\ data = <<>>
    /\ ParserIdle /\ HeadersIdle /\ ServerIdle /\ LinesIdle

\* The state moves on whether or not the status line was written.
WriterWriteStatusLine_AdvanceOnFail ==
    /\ wcalls < MaxCalls
    /\ wcalls' = wcalls + 1
    /\ \E statusCode \in StatusCodes :
         IF wstate # StateStatusPending
         THEN /\ wret' = [op |-> "WriteStatusLine", n |-> 0,
                          err |-> ErrCannotWriteStatusLine(wstate)]
              /\ UNCHANGED <<wstate, sent>>
         ELSE \E w \in Writes(statusLine(statusCode)) :
                /\ sent' = sent \o Received("status", statusLine(statusCode), w)
                /\ wret' = [op |-> "WriteStatusLine", n |-> 0, err |-> w.err]
                /\ wstate' = StateHeadersPending
    /\ UNCHANGED <<input, data, pos, buf, req, readErr, pc, ret, hvars, svars, lvars>>

\* err := w.WriteStatusLine(statusCode)
WriterWriteStatusLine ==
    /\ wcalls < MaxCalls
    /\ wcalls' = wcalls + 1
    /\ \E statusCode \in StatusCodes :
         IF wstate # StateStatusPending
         THEN /\ wret' = [op |-> "WriteStatusLine", n |-> 0,
                          err |-> ErrCannotWriteStatusLine(wstate)]
              /\ UNCHANGED <<wstate, sent>>
         ELSE \E w \in Writes(statusLine(statusCode)) :
                /\ sent' = sent \o Received("status", statusLine(statusCode), w)
                /\ wret' = [op |-> "WriteStatusLine", n |-> 0, err |-> w.err]
                /\ wstate' = IF w.err = NoError THEN StateHeadersPending ELSE wstate
    /\ UNCHANGED <<input, data, pos, buf, req, readErr, pc, ret, hvars, svars, lvars>>

\* err := w.WriteHeaders(headers): the lines in some order, each with its own
\* Write, then the blank line; the first Write that fails ends the call.
WriterWriteHeaders ==
    /\ wcalls < MaxCalls
    /\ wcalls' = wcalls + 1
    /\ \E headers \in HeaderArgs :
         IF wstate # StateHeadersPending
         THEN /\ wret' = [op |-> "WriteHeaders", n |-> 0,
                          err |-> ErrCannotWriteHeaders(wstate)]
              /\ UNCHANGED <<wstate, sent>>
         ELSE \E o \in Orders(headers.m), j \in 0..Cardinality(DOMAIN headers.m) :
                LET line(i) == headerLine(o[i], headers.m[o[i]])
                    done == [i \in 1..j |-> [part |-> "header", bytes |-> line(i), whole |-> TRUE]]
                IN  IF j < Cardinality(DOMAIN headers.m)
                    THEN \E w \in Writes(line(j + 1)) :
                           /\ w.err # NoError
                           /\ sent' = sent \o done \o Received("header", line(j + 1), w)
                           /\ wret' = [op |-> "WriteHeaders", n |-> 0, err |-> w.err]
                           /\ UNCHANGED wstate
                    ELSE \E w \in Writes(CRLF) :
                           /\ sent' = sent \o done \o Received("blank", CRLF, w)
                           /\ wret' = [op |-> "WriteHeaders", n |-> 0, err |-> w.err]
                           /\ wstate' = IF w.err = NoError THEN StateBodyPending ELSE wstate
    /\ UNCHANGED <<input, data, pos, buf, req, readErr, pc, ret, hvars, svars, lvars>>

\* A body written in full makes the Writer ready for a new status line.
WriterWriteBody_Reset ==
    /\ wcalls < MaxCalls
    /\ wcalls' = wcalls + 1
    /\ \E p \in Bodies :
         IF wstate # StateBodyPending
         THEN /\ wret' = [op |-> "WriteBody", n |-> 0, err |-> ErrCannotWriteBody]
              /\ UNCHANGED <<wstate, sent>>
         ELSE \E w \in Writes(p) :
                /\ sent' = sent \o Received("body", p, w)
                /\ wret' = [op |-> "WriteBody", n |-> w.n, err |-> w.err]
                /\ wstate' = IF w.err = NoError THEN StateStatusPending ELSE wstate
    /\ UNCHANGED <<input, data, pos, buf, req, readErr, pc, ret, hvars, svars, lvars>>

\* The state is not looked at.
WriterWriteBody_Ungated ==
    /\ wcalls < MaxCalls
    /\ wcalls' = wcalls + 1
    /\ \E p \in Bodies : \E w \in Writes(p) :
         /\ sent' = sent \o Received("body", p, w)
         /\ wret' = [op |-> "WriteBody", n |-> w.n, err |-> w.err]
         /\ UNCHANGED wstate
    /\ UNCHANGED <<input, data, pos, buf, req, readErr, pc, ret, hvars, svars, lvars>>

\* n, err := w.WriteBody(p)
WriterWriteBody ==
    /\ wcalls < MaxCalls
    /\ wcalls' = wcalls + 1
    /\ \E p \in Bodies :
         IF wstate # StateBodyPending
         THEN /\ wret' = [op |-> "WriteBody", n |-> 0, err |-> ErrCannotWriteBody]
              /\ UNCHANGED <<wstate, sent>>
         ELSE \E w \in Writes(p) :
                /\ sent' = sent \o Received("body", p, w)
                /\ wret' = [op |-> "WriteBody", n |-> w.n, err |-> w.err]
                /\ UNCHANGED wstate
    /\ UNCHANGED <<input, data, pos, buf, req, readErr, pc, ret, hvars, svars, lvars>>

NextWriter == WriterWriteStatusLine \/ WriterWriteHeaders \/ WriterWriteBody

SpecWriter == InitWriter /\ [][NextWriter]_vars

(***************************************************************************)
(* The handler of cmd/tcplistener and what it calls.                       *)
(***************************************************************************)
\* const html200, 148 bytes.
html200 ==
    <<60, 104, 116, 109, 108, 62, 10, 32, 32, 60, 104, 101, 97, 100, 62, 10, 32, 32, 32, 32,
    60, 116, 105, 116, 108, 101, 62, 50, 48, 48, 32, 79, 75, 60, 47, 116, 105, 116, 108,
    101, 62, 10, 32, 32, 60, 47, 104, 101, 97, 100, 62, 10, 32, 32, 60, 98, 111, 100, 121,
    62, 10, 32, 32, 32, 32, 60, 104, 49, 62, 83, 117, 99, 99, 101, 115, 115, 33, 60, 47,
    104, 49, 62, 10, 32, 32, 32, 32, 60, 112, 62, 89, 111, 117, 114, 32, 114, 101, 113, 117,
    101, 115, 116, 32, 119, 97, 115, 32, 97, 110, 32, 97, 98, 115, 111, 108, 117, 116, 101,
    32, 98, 97, 110, 103, 101, 114, 46, 60, 47, 112, 62, 10, 32, 32, 60, 47, 98, 111, 100,
    121, 62, 10, 60, 47, 104, 116, 109, 108, 62>>
\* const html400, 159 bytes.
html400 ==
    <<60, 104, 116, 109, 108, 62, 10, 32, 32, 60, 104, 101, 97, 100, 62, 10, 32, 32, 32, 32,
    60, 116, 105, 116, 108, 101, 62, 52, 48, 48, 32, 66, 97, 100, 32, 82, 101, 113, 117,
    101, 115, 116, 60, 47, 116, 105, 116, 108, 101, 62, 10, 32, 32, 60, 47, 104, 101, 97,
    100, 62, 10, 32, 32, 60, 98, 111, 100, 121, 62, 10, 32, 32, 32, 32, 60, 104, 49, 62, 66,
    97, 100, 32, 82, 101, 113, 117, 101, 115, 116, 60, 47, 104, 49, 62, 10, 32, 32, 32, 32,
    60, 112, 62, 89, 111, 117, 114, 32, 114, 101, 113, 117, 101, 115, 116, 32, 104, 111,
    110, 101, 115, 116, 108, 121, 32, 107, 105, 110, 100, 97, 32, 115, 117, 99, 107, 101,
    100, 46, 60, 47, 112, 62, 10, 32, 32, 60, 47, 98, 111, 100, 121, 62, 10, 60, 47, 104,
    116, 109, 108, 62>>
\* const html500, 183 bytes.
html500 ==
    <<60, 104, 116, 109, 108, 62, 10, 32, 32, 60, 104, 101, 97, 100, 62, 10, 32, 32, 32, 32,
    60, 116, 105, 116, 108, 101, 62, 53, 48, 48, 32, 73, 110, 116, 101, 114, 110, 97, 108,
    32, 83, 101, 114, 118, 101, 114, 32, 69, 114, 114, 111, 114, 60, 47, 116, 105, 116, 108,
    101, 62, 10, 32, 32, 60, 47, 104, 101, 97, 100, 62, 10, 32, 32, 60, 98, 111, 100, 121,
    62, 10, 32, 32, 32, 32, 60, 104, 49, 62, 73, 110, 116, 101, 114, 110, 97, 108, 32, 83,
    101, 114, 118, 101, 114, 32, 69, 114, 114, 111, 114, 60, 47, 104, 49, 62, 10, 32, 32,
    32, 32, 60, 112, 62, 79, 107, 97, 121, 44, 32, 121, 111, 117, 32, 107, 110, 111, 119,
    32, 119, 104, 97, 116, 63, 32, 84, 104, 105, 115, 32, 111, 110, 101, 32, 105, 115, 32,
    111, 110, 32, 109, 101, 46, 60, 47, 112, 62, 10, 32, 32, 60, 47, 98, 111, 100, 121, 62,
    10, 60, 47, 104, 116, 109, 108, 62>>
Path400 == <<47, 52, 48, 48>>  \* "/400"
Path500 == <<47, 53, 48, 48>>  \* "/500"
KeyContentLength == <<67, 111, 110, 116, 101, 110, 116, 45, 76, 101, 110, 103, 116, 104>>  \* "Content-Length"
KeyConnection == <<67, 111, 110, 110, 101, 99, 116, 105, 111, 110>>  \* "Connection"
KeyContentType == <<67, 111, 110, 116, 101, 110, 116, 45, 84, 121, 112, 101>>  \* "Content-Type"
ValClose == <<99, 108, 111, 115, 101>>  \* "close"
ValTextPlain == <<116, 101, 120, 116, 47, 112, 108, 97, 105, 110>>  \* "text/plain"
ValTextHtml == <<116, 101, 120, 116, 47, 104, 116, 109, 108>>  \* "text/html"

\* The value is joined to the one already stored, as Parse does.
HeadersSet_Combine(h, key, value) == Combine(h, ToLower(key), value)

\* h.Set(key, value): the key is lowercased, the old value is replaced.
HeadersSet(h, key, value) ==
    [isNil |-> FALSE,
     m |-> [k \in (DOMAIN h.m) \cup {ToLower(key)} |->
              IF k = ToLower(key) THEN value ELSE h.m[k]]]

\* h[key] = value, as GetDefaultHeaders stores its entries.
StoreRaw(h, key, value) ==
    [isNil |-> FALSE,
     m |-> [k \in (DOMAIN h.m) \cup {key} |-> IF k = key THEN value ELSE h.m[k]]]

GetDefaultHeaders(contentLen) ==
    StoreRaw(StoreRaw(StoreRaw(NewHeaders, KeyContentLength, Itoa(contentLen)),
                      KeyConnection, ValClose),
             KeyContentType, ValTextPlain)

\* What a connection has received from the server: the status line, the
\* header lines, the blank line, the body.  WriteHeaders writes one line per
\* entry in the order range visits the map, which Go leaves open: the lines
\* are kept as a set.
NoOutput == NoConn.out

handlerStatus(r) ==
    IF r.RequestLine.RequestTarget = Path400 THEN StatusBadRequest
    ELSE IF r.RequestLine.RequestTarget = Path500 THEN StatusInternalServerError
    ELSE StatusOK

handlerBody(r) ==
    IF r.RequestLine.RequestTarget = Path400 THEN html400
    ELSE IF r.RequestLine.RequestTarget = Path500 THEN html500
    ELSE html200

\* handler(w, req) on a fresh Writer whose writes all succeed: the status
\* line, the default headers with Content-Type set again, the body.
handler(r) ==
    LET h == HeadersSet(GetDefaultHeaders(Len(handlerBody(r))), KeyContentType, ValTextHtml)
    IN  [status |-> statusLine(handlerStatus(r)),
         fields |-> {headerLine(k, h.m[k]) : k \in DOMAIN h.m},
         blank |-> CRLF,
         body |-> handlerBody(r)]

(***************************************************************************)
(* The Server: listen accepts connections and starts one handle goroutine  *)
(* per connection; Close may be called at any time.  Peers open            *)
(* connections, send their stream in segments and may close at any point.  *)
(***************************************************************************)
MaxAcceptErrors == 1
MaxSegment == 16

\* What peers send.
ServerInputs ==
    { Input(<<GET, Path400, HTTP11>>, TRUE,
            <<Field(<<>>, <<97>>, <<>>, TRUE, <<32>>, <<98>>, <<>>)>>, <<TRUE, <<>>>>),
      Input(<<get, <<47>>, HTTP11>>, TRUE, <<>>, <<TRUE, <<>>>>) }

InitServer ==
    /\ isClosed = FALSE
    /\ listener = "open"
    /\ lpc = "accept"
    /\ held = 0
    /\ cpc = "idle"
    /\ logged = 0
    /\ conns = [c \in ConnIds |-> NoConn]
    /\ input = Input(<<>>, FALSE, <<>>, <<FALSE, <<>>>>)
    /\ data = <<>>
    /\ ParserIdle /\ HeadersIdle /\ WriterIdle /\ LinesIdle

ServerFrame == UNCHANGED <<input, data, pos, buf, req, readErr, pc, ret, hvars, wvars, lvars>>

\* A peer opens the next connection; it waits in the listener's queue.
PeerConnect(c) ==
    /\ listener = "open"
    /\ conns[c].wpc = "none"
    /\ \A d \in ConnIds : d < c => conns[d].wpc # "none"
    /\ \E in \in ServerInputs :
         conns' = [conns EXCEPT ![c] = [NoConn EXCEPT !.stream = Encode(in), !.wpc = "queued"]]
    /\ UNCHANGED <<isClosed, listener, lpc, held, cpc, logged>>
    /\ ServerFrame

\* The peer sends the next segment of its stream, as long as the server has
\* not closed the connection.
PeerSend(c) ==
    /\ conns[c].wpc \notin {"none", "closed"}
    /\ ~conns[c].peerClosed
    /\ conns[c].sent < Len(conns[c].stream)
    /\ conns' = [conns EXCEPT ![c].sent = Min({@ + MaxSegment, Len(conns[c].stream)})]
    /\ UNCHANGED <<isClosed, listener, lpc, held, cpc, logged>>
    /\ ServerFrame

\* The peer closes its side, whatever it has sent so far.
PeerClose(c) ==
    /\ conns[c].wpc \notin {"none", "closed"}
    /\ ~conns[c].peerClosed
    /\ conns' = [conns EXCEPT ![c].peerClosed = TRUE]
    /\ UNCHANGED <<isClosed, listener, lpc, held, cpc, logged>>
    /\ ServerFrame

\* conn, err := s.listener.Accept() returns the oldest queued connection.
Accept ==
    /\ lpc = "accept"
    /\ listener = "open"
    /\ \E c \in ConnIds :
         /\ conns[c].wpc = "queued"
         /\ \A d \in ConnIds : d < c => conns[d].wpc # "queued"
         /\ held' = c
         /\ conns' = [conns EXCEPT ![c].wpc = "accepted"]
    /\ lpc' = "dispatch"
    /\ UNCHANGED <<isClosed, listener, cpc, logged>>
    /\ ServerFrame

\* Accept returns an error: always once the listener is closed, and now and
\* then while it is open.
AcceptFail ==
    /\ lpc = "accept"
    /\ listener = "closed" \/ logged < MaxAcceptErrors
    /\ lpc' = "failed"
    /\ UNCHANGED <<isClosed, listener, held, cpc, logged, conns>>
    /\ ServerFrame

\* if s.isClosed.Load() { return }; log.Printf(...); continue
listenOnError ==
    /\ lpc = "failed"
    /\ IF isClosed
       THEN lpc' = "exited" /\ UNCHANGED logged
       ELSE lpc' = "accept" /\ logged' = logged + 1
    /\ UNCHANGED <<isClosed, listener, held, cpc, conns>>
    /\ ServerFrame

\* go s.handle(conn)
Dispatch ==
    /\ lpc = "dispatch"
    /\ conns' = [conns EXCEPT ![held].wpc = "parse"]
    /\ held' = 0
    /\ lpc' = "accept"
    /\ UNCHANGED <<isClosed, listener, cpc, logged>>
    /\ ServerFrame

\* Close closes the listener first and leaves the flag for later.
CloseStore_ListenerFirst ==
    /\ cpc = "idle"
    /\ listener = "open"
    /\ listener' = "closed"
    /\ cpc' = "stored"
    /\ UNCHANGED <<isClosed, lpc, held, logged, conns>>
    /\ ServerFrame

\* s.isClosed.Store(true)
CloseStore ==
    /\ cpc = "idle"
    /\ listener = "open"
    /\ isClosed' = TRUE
    /\ cpc' = "stored"
    /\ UNCHANGED <<listener, lpc, held, logged, conns>>
    /\ ServerFrame

\* Close also closes every connection a worker is still serving.
CloseListener_EndsWorkers ==
    /\ cpc = "stored"
    /\ listener' = "closed"
    /\ cpc' = "returned"
    /\ conns' = [c \in ConnIds |->
                  IF conns[c].wpc \in {"parse", "handle"}
                  THEN [conns[c] EXCEPT !.wpc = "closed", !.closes = @ + 1]
                  ELSE conns[c]]
    /\ UNCHANGED <<isClosed, lpc, held, logged>>
    /\ ServerFrame

\* return s.listener.Close()
CloseListener ==
    /\ cpc = "stored"
    /\ listener' = "closed"
    /\ cpc' = "returned"
    /\ UNCHANGED <<isClosed, lpc, held, logged, conns>>
    /\ ServerFrame

\* Every worker appends to the buffer of connection 1.
workerBuf_Shared(c) == conns[1].buf

\* buf := make([]byte, 0, 1024), local to each call of RequestFromReader.
workerBuf(c) == conns[c].buf

\* One iteration of RequestFromReader in the worker of c, Read delivering
\* what has arrived (at most a chunk): append, parse, slide; on an error
\* handle returns and its deferred conn.Close() runs; on Done the Request is
\* returned to handle.
handleRead(c) ==
    /\ conns[c].wpc = "parse"
    /\ conns[c].rpos < conns[c].sent
    /\ LET n == Min({conns[c].sent - conns[c].rpos, ChunkCap})
           b == workerBuf(c) \o SubSeq(conns[c].stream, conns[c].rpos + 1, conns[c].rpos + n)
           x == parse(conns[c].req, b)
       IN  conns' = [conns EXCEPT ![c] =
                 IF x.err # NoError
                 THEN [@ EXCEPT !.rpos = @ + n, !.buf = b, !.req = x.r, !.err = x.err,
                                !.wpc = "closed", !.closes = @ + 1]
                 ELSE [@ EXCEPT !.rpos = @ + n, !.buf = Slide(b, x.n), !.req = x.r,
                                !.wpc = IF x.r.state = requestStateDone
                                        THEN "handle" ELSE "parse"]]
    /\ UNCHANGED <<isClosed, listener, lpc, held, cpc, logged>>
    /\ ServerFrame

\* The connection is closed as soon as the Request is in hand, before the
\* handler is called.
handleReadEOF_CloseFirst(c) ==
    /\ conns[c].wpc = "parse"
    /\ conns[c].rpos = conns[c].sent
    /\ conns[c].peerClosed
    /\ conns' = [conns EXCEPT ![c].req.state = requestStateDone, ![c].wpc = "handle",
                              ![c].closes = @ + 1]
    /\ UNCHANGED <<isClosed, listener, lpc, held, cpc, logged>>
    /\ ServerFrame

\* Read returns 0, io.EOF: the state is forced to Done and the Request is
\* returned to handle.
handleReadEOF(c) ==
    /\ conns[c].wpc = "parse"
    /\ conns[c].rpos = conns[c].sent
    /\ conns[c].peerClosed
    /\ conns' = [conns EXCEPT ![c].req.state = requestStateDone, ![c].wpc = "handle"]
    /\ UNCHANGED <<isClosed, listener, lpc, held, cpc, logged>>
    /\ ServerFrame

\* Read returns an error other than io.EOF: handle returns, conn.Close() runs.
handleReadFail(c) ==
    /\ conns[c].wpc = "parse"
    /\ conns' = [conns EXCEPT ![c].err = ReadFailure, ![c].wpc = "closed",
                              ![c].closes = @ + 1]
    /\ UNCHANGED <<isClosed, listener, lpc, held, cpc, logged>>
    /\ ServerFrame

\* w := response.NewWriter(conn); s.handler(w, req); then conn.Close().
handleRespond(c) ==
    /\ conns[c].wpc = "handle"
    /\ conns' = [conns EXCEPT ![c].handled = @ + 1, ![c].out = handler(conns[c].req),
                              ![c].wpc = "closed", ![c].closes = @ + 1]
    /\ UNCHANGED <<isClosed, listener, lpc, held, cpc, logged>>
    /\ ServerFrame

listenStep == Accept \/ AcceptFail \/ listenOnError \/ Dispatch
CloseStep == CloseStore \/ CloseListener
handleStep(c) == handleRead(c) \/ handleReadEOF(c) \/ handleReadFail(c) \/ handleRespond(c)
PeerStep(c) == PeerConnect(c) \/ PeerSend(c) \/ PeerClose(c)

NextServer ==
    \/ Accept \/ AcceptFail \/ listenOnError \/ Dispatch
    \/ CloseStore \/ CloseListener
    \/ \E c \in ConnIds : handleRead(c)
    \/ \E c \in ConnIds : handleReadEOF(c)
    \/ \E c \in ConnIds : handleReadFail(c)
    \/ \E c \in ConnIds : handleRespond(c)
    \/ \E c \in ConnIds : PeerConnect(c)
    \/ \E c \in ConnIds : PeerSend(c)
    \/ \E c \in ConnIds : PeerClose(c)

SpecServer == InitServer /\ [][NextServer]_vars

\* The goroutines of listen and of Close are scheduled again and again.
SpecServerFair == SpecServer /\ WF_vars(listenStep) /\ WF_vars(CloseStep)

\* A worker whose Read has io.EOF to return, or whose Request is parsed, is
\* scheduled and takes its step.
SpecWorkersFair ==
    SpecServer /\ \A c \in ConnIds : WF_vars(handleReadEOF(c)) /\ WF_vars(handleRespond(c))

(***************************************************************************)
(* cmd/tcplistener: getLinesChannel(f) reads f in pieces of up to 8 bytes  *)
(* in a goroutine and sends the lines on a channel of capacity 1; main     *)
(* ranges over the channel.                                                *)
(***************************************************************************)
LineChunkCap == 8
ChanCap == 1
NEWLINE == <<10>>

MaxStream == 3
MaxRead == 2

LineBytes == {97, 98, 10}
\* A stream longer than data, with an empty line and an unfinished last line.
LongStream == <<97, 98, 10, 10, 98, 97, 97, 98, 97>>
LineStreams == UNION {[1..n -> LineBytes] : n \in 0..MaxStream} \cup {LongStream}

InitLines ==
    /\ src \in LineStreams
    /\ rd = 0
    /\ rerr = "nil"
    /\ chunk = <<>>
    /\ str = <<>>
    /\ chan = <<>>
    /\ chanClosed = FALSE
    /\ fClosed = FALSE
    /\ gpc = "read"
    /\ lines = <<>>
    /\ mpc = "range"
    /\ input = Input(<<>>, FALSE, <<>>, <<FALSE, <<>>>>)
    /\ data = <<>>
    /\ ParserIdle /\ HeadersIdle /\ WriterIdle /\ ServerIdle

LinesFrame == UNCHANGED <<input, data, pos, buf, req, readErr, pc, ret, hvars, wvars, svars>>

\* The sizes f.Read may return when left bytes remain: up to MaxRead bytes,
\* or all that remains (at most the 8 bytes of data).
ReadSizes(left) ==
    {n \in 1..MaxRead : n <= left} \cup ({IF left < LineChunkCap THEN left ELSE LineChunkCap} \ {0})

\* s <- line: the send waits while the buffer is full; on a closed channel
\* it panics.
chanSend(line, next) ==
    IF chanClosed
    THEN gpc' = "panic" /\ chan' = chan
    ELSE Len(chan) < ChanCap /\ chan' = Append(chan, line) /\ gpc' = next

\* n, err := f.Read(data) with err == nil; chunk := data[:n].
lineRead ==
    /\ gpc = "read"
    /\ \E n \in ReadSizes(Len(src) - rd) :
         /\ chunk' = SubSeq(src, rd + 1, rd + n)
         /\ rd' = rd + n
    /\ rerr' = "nil"
    /\ gpc' = "scan"
    /\ UNCHANGED <<src, str, chan, chanClosed, fClosed, lines, mpc>>
    /\ LinesFrame

\* f.Read returns io.EOF, alone once the stream is exhausted or together
\* with the last bytes of the stream; the loop breaks.
lineReadEOF ==
    /\ gpc = "read"
    /\ Len(src) - rd <= LineChunkCap
    /\ \/ Len(src) = rd /\ rd' = rd
       \/ Len(src) > rd /\ rd' = Len(src)
    /\ rerr' = "EOF"
    /\ gpc' = "last"
    /\ UNCHANGED <<src, chunk, str, chan, chanClosed, fClosed, lines, mpc>>
    /\ LinesFrame

\* f.Read returns another error, with or without bytes; it is logged and
\* the loop breaks.
lineReadFail ==
    /\ gpc = "read"
    /\ \E n \in {0} \cup ReadSizes(Len(src) - rd) : rd' = rd + n
    /\ rerr' = "error"
    /\ gpc' = "last"
    /\ UNCHANGED <<src, chunk, str, chan, chanClosed, fClosed, lines, mpc>>
    /\ LinesFrame

\* The inner loop up to its send: without a newline the rest of chunk goes
\* to str and the outer loop reads again.
lineScan ==
    /\ gpc = "scan"
    /\ LET i == Index(chunk, NEWLINE)
       IN  IF i = -1
           THEN /\ str' = str \o chunk
                /\ chunk' = <<>>
                /\ gpc' = "read"
           ELSE /\ str' = str \o SubSeq(chunk, 1, i)
                /\ chunk' = chunk
                /\ gpc' = "send"
    /\ UNCHANGED <<src, rd, rerr, chan, chanClosed, fClosed, lines, mpc>>
    /\ LinesFrame

\* s <- str; str = ""; chunk = chunk[i+1:].
lineSend ==
    /\ gpc = "send"
    /\ chanSend(str, "scan")
    /\ IF gpc' = "scan"
       THEN str' = <<>> /\ chunk' = Drop(chunk, Index(chunk, NEWLINE) + 1)
       ELSE UNCHANGED <<str, chunk>>
    /\ UNCHANGED <<src, rd, rerr, chanClosed, fClosed, lines, mpc>>
    /\ LinesFrame

\* The deferred close(s) run before the last send.
lineLast_CloseFirst ==
    /\ gpc = "last"
    /\ chanClosed' = TRUE
    /\ gpc' = IF Len(str) # 0 THEN "panic" ELSE "defer"
    /\ UNCHANGED <<src, rd, rerr, chunk, str, chan, fClosed, lines, mpc>>
    /\ LinesFrame

\* After the loop: if len(str) != 0 { s <- str }.
lineLast ==
    /\ gpc = "last"
    /\ IF Len(str) # 0
       THEN chanSend(str, "defer")
       ELSE gpc' = "defer" /\ chan' = chan
    /\ UNCHANGED <<src, rd, rerr, chunk, str, chanClosed, fClosed, lines, mpc>>
    /\ LinesFrame

\* The deferred calls, last deferred first: close(s), then f.Close().
lineDefer ==
    /\ gpc = "defer"
    /\ chanClosed' = TRUE
    /\ fClosed' = TRUE
    /\ gpc' = "done"
    /\ UNCHANGED <<src, rd, rerr, chunk, str, chan, lines, mpc>>
    /\ LinesFrame

\* for line := range s: one value received.
mainRecv ==
    /\ mpc = "range"
    /\ chan # <<>>
    /\ lines' = Append(lines, Head(chan))
    /\ chan' = Tail(chan)
    /\ UNCHANGED <<src, rd, rerr, chunk, str, chanClosed, fClosed, gpc, mpc>>
    /\ LinesFrame

\* The range loop ends once the channel is closed and drained.
mainRangeEnd ==
    /\ mpc = "range"
    /\ chan = <<>>
    /\ chanClosed
    /\ mpc' = "done"
    /\ UNCHANGED <<src, rd, rerr, chunk, str, chan, chanClosed, fClosed, gpc, lines>>
    /\ LinesFrame

\* f.Read returns.
lineReadStep == lineRead \/ lineReadEOF \/ lineReadFail

NextLines ==
    \/ lineRead \/ lineReadEOF \/ lineReadFail
    \/ lineScan \/ lineSend \/ lineLast \/ lineDefer
    \/ mainRecv \/ mainRangeEnd

SpecLines == InitLines /\ [][NextLines]_vars

\* f.Read returns, the goroutine is scheduled, and main keeps receiving.
SpecLinesFair ==
    /\ SpecLines
    /\ WF_vars(lineReadStep) /\ WF_vars(lineScan) /\ WF_vars(lineSend)
    /\ WF_vars(lineLast) /\ WF_vars(lineDefer)
    /\ WF_vars(mainRecv) /\ WF_vars(mainRangeEnd)

(***************************************************************************)
(* The grammar of the wire format, stated on the input record.             *)
(***************************************************************************)
IsUpperAlpha(s) == \A i \in 1..Len(s) : s[i] >= 65 /\ s[i] <= 90
HasByte(s, b) == \E i \in 1..Len(s) : s[i] = b

\* METHOD SP TARGET SP "HTTP/1.1" CRLF
WellFormedLine(in) ==
    /\ in.rlTerm
    /\ Len(in.parts) = 3
    /\ in.parts[1] # <<>> /\ IsUpperAlpha(in.parts[1])
    /\ in.parts[2] # <<>> /\ ~HasByte(in.parts[2], 32)
    /\ in.parts[3] = HTTP11

\* name ":" OWS value OWS, the name a token
WellFormedField(f) ==
    /\ f.lead = <<>> /\ f.gap = <<>> /\ f.colon
    /\ f.name # <<>>
    /\ \A i \in 1..Len(f.name) : isTokenChar(LowerByte(f.name[i]))
    /\ \A i \in 1..Len(f.ows1) : f.ows1[i] \in {32, 9}
    /\ \A i \in 1..Len(f.ows2) : f.ows2[i] \in {32, 9}
    /\ \A i \in 1..Len(f.value) : f.value[i] \notin {13, 10}
    /\ f.value # <<>> => ~IsSpaceByte(f.value[1]) /\ ~IsSpaceByte(f.value[Len(f.value)])

\* Request line, field lines and the blank line are all well formed.
ValidHead(in) ==
    /\ WellFormedLine(in)
    /\ \A i \in 1..Len(in.fields) : WellFormedField(in.fields[i])
    /\ in.blank

\* Offset just after the blank line.
HeadEnd(in) == Len(JoinSP(in.parts)) + 2 + Len(FieldsBytes(in.fields)) + 2

\* The Content-Length the head declares: the field must occur once and be digits.
IsLengthField(f) == ToLower(f.name) = ContentLengthName
LengthFields(in) == SelectSeq(in.fields, IsLengthField)
IsDigits(s) == s # <<>> /\ \A i \in 1..Len(s) : s[i] >= 48 /\ s[i] <= 57
RECURSIVE DigitsValue(_)
DigitsValue(s) ==
    IF s = <<>> THEN 0 ELSE 10 * DigitsValue(SubSeq(s, 1, Len(s) - 1)) + (s[Len(s)] - 48)
HasValidLength(in) == Len(LengthFields(in)) = 1 /\ IsDigits(LengthFields(in)[1].value)
DeclaredLength(in) == DigitsValue(LengthFields(in)[1].value)

\* A valid request stream: a valid head and exactly the declared body bytes.
ValidStream(in) ==
    /\ ValidHead(in)
    /\ Len(in.tail) = (IF HasValidLength(in) THEN DeclaredLength(in) ELSE 0)

\* The values of the field lines named k (lower case), joined by ", ".
RECURSIVE JoinedValue(_, _)
JoinedValue(fs, k) ==
    IF fs = <<>> THEN <<>>
    ELSE LET rest == JoinedValue(Tail(fs), k)
             more == \E i \in 2..Len(fs) : ToLower(fs[i].name) = k
         IN  IF ToLower(Head(fs).name) = k
             THEN Head(fs).value \o (IF more THEN <<44, 32>> \o rest ELSE <<>>)
             ELSE rest

(***************************************************************************)
(* What RequestFromReader has done.                                        *)
(***************************************************************************)
\* Bytes slid off the buffer so far.
Consumed == pos - Len(buf)

\* RequestFromReader has returned, and not because Read failed.
Returned == pc = "returned" /\ readErr # "error"

\* The returned pair, with the fields of the Request when there is one.
Outcome ==
    [isNil |-> ret.isNil, err |-> ret.err,
     RequestLine |-> IF ret.isNil THEN NoRequestLine ELSE req.RequestLine,
     Headers |-> IF ret.isNil THEN NilHeaders ELSE req.Headers]

\* The outcome when the source delivers all of d in one Read and then EOF.
OneShot(d) ==
    LET x == parse(newRequest, d)
        some(r) == [isNil |-> FALSE, err |-> NoError,
                    RequestLine |-> r.RequestLine, Headers |-> r.Headers]
    IN  IF d = <<>> THEN some(newRequest)
        ELSE IF x.err # NoError
             THEN [isNil |-> TRUE, err |-> x.err,
                   RequestLine |-> NoRequestLine, Headers |-> NilHeaders]
        ELSE some(x.r)

(***************************************************************************)
(* C1.  Chunk-size invariance: for a valid request stream the outcome of   *)
(* RequestFromReader (request line, headers, error) is the same for every  *)
(* way of cutting the stream into reads as for one read of all of it.      *)
(***************************************************************************)
C1_ChunkInvariance == (Returned /\ ValidStream(input)) => Outcome = OneShot(data)

\* A valid request with field lines, returned after reads that stopped short
\* of the end of the stream.
C1_Witness ==
    /\ Returned /\ ValidStream(input) /\ ~ret.isNil
    /\ Len(input.fields) = 2 /\ pos < Len(data)

(***************************************************************************)
(* C2.  When the source reports end-of-stream (0 bytes and EOF) inside the *)
(* read loop, where the state is not Done, RequestFromReader returns an    *)
(* unexpected-end-of-stream error and no Request.                          *)
(***************************************************************************)
UnexpectedEndOfStream == [kind |-> "unexpected EOF: request incomplete", text |-> <<>>]

C2_EofBeforeDoneIsError ==
    (pc = "returned" /\ readErr = "EOF") => (ret.isNil /\ ret.err = UnexpectedEndOfStream)

(***************************************************************************)
(* C3.  Insufficient data is not an error.  As claimed: in a loop          *)
(* iteration after whose Read the buffer holds no CRLF, nothing is         *)
(* consumed, no error is returned and the Request is unchanged; and an     *)
(* error is returned only when the buffer holds a CRLF.                    *)
(***************************************************************************)
NoUnitYet == pc = "loop" /\ pos' > pos /\ Index(buf \o SubSeq(data, pos + 1, pos'), CRLF) = -1

C4_WellFormedRequest ==
    (Returned /\ ValidHead(input) /\ input.tail = <<>>) =>
        /\ ~ret.isNil /\ ret.err = NoError
        /\ req.RequestLine.Method = input.parts[1]
        /\ req.RequestLine.RequestTarget = input.parts[2]
        /\ req.RequestLine.HttpVersion = <<49, 46, 49>>
        /\ ~req.Headers.isNil
        /\ DOMAIN req.Headers.m = {ToLower(input.fields[i].name) : i \in 1..Len(input.fields)}
        /\ \A k \in DOMAIN req.Headers.m : req.Headers.m[k] = JoinedValue(input.fields, k)

\* A returned well-formed request with field lines of two different names,
\* one of them with whitespace after its value.
C4_Witness ==
    /\ Returned /\ ValidHead(input) /\ input.tail = <<>> /\ ~ret.isNil
    /\ Cardinality(DOMAIN req.Headers.m) = 2
    /\ \E i \in 1..Len(input.fields) : input.fields[i].ows2 # <<>>

(***************************************************************************)
(* The body.  The Request of request.go has no Body field; the body the    *)
(* parser has collected is taken to be the bytes it consumed after the     *)
(* blank line.                                                             *)
(***************************************************************************)
BodyBytes ==
    IF Consumed > HeadEnd(input) THEN SubSeq(data, HeadEnd(input) + 1, Consumed) ELSE <<>>

ContentLengthMismatch == [kind |-> "content-length doesn't match the body size", text |-> <<>>]

(***************************************************************************)
(* C5.  With a valid Content-Length T and exactly T bytes after the blank  *)
(* line, the returned Request carries exactly those T bytes as its body.   *)
(***************************************************************************)
C5_BodyCollected ==
    (Returned /\ ValidHead(input) /\ HasValidLength(input)
       /\ Len(input.tail) = DeclaredLength(input)) =>
        /\ ~ret.isNil /\ ret.err = NoError
        /\ BodyBytes = input.tail

(***************************************************************************)
(* C6.  With a valid Content-Length T and more than T bytes after the      *)
(* blank line, RequestFromReader fails with ContentLengthMismatch and      *)
(* returns no Request, once the source has delivered those bytes.          *)
(***************************************************************************)
C6_BodyTooLong ==
    (Returned /\ ValidHead(input) /\ HasValidLength(input)
       /\ pos > HeadEnd(input) + DeclaredLength(input)) =>
        /\ ret.isNil /\ ret.err = ContentLengthMismatch

(***************************************************************************)
(* C7.  With Content-Length absent or not a non-negative integer, as soon  *)
(* as the blank line has been read the parser is Done and the Request is   *)
(* returned without error and without any byte after the blank line        *)
(* consumed, whatever follows in the stream.                               *)
(***************************************************************************)
C7_NoLengthNoBody ==
    (ValidHead(input) /\ ~HasValidLength(input) /\ pos >= HeadEnd(input)) =>
        /\ pc = "returned" /\ readErr = "nil"
        /\ ~ret.isNil /\ ret.err = NoError
        /\ req.state = requestStateDone
        /\ Consumed = HeadEnd(input) /\ BodyBytes = <<>>

\* Returned with an unparseable Content-Length and bytes after the blank line
\* already read.
C7_Witness ==
    /\ pc = "returned" /\ ValidHead(input) /\ ~ret.isNil
    /\ LengthFields(input) # <<>> /\ ~HasValidLength(input)
    /\ input.tail # <<>> /\ pos = Len(data)

(***************************************************************************)
(* C8.  A complete request line with two space delimiters whose method has *)
(* a byte outside 'A'-'Z' is rejected with InvalidMethod carrying the      *)
(* method text; every accepted request line has an upper-case method.      *)
(***************************************************************************)
C8_InvalidMethodRejected ==
    /\ (Returned /\ input.rlTerm /\ Len(input.parts) >= 3 /\ ~IsUpperAlpha(input.parts[1]))
          => (ret.isNil /\ ret.err = ErrorInvalidMethod(input.parts[1]))
    /\ Consumed > 0 => IsUpperAlpha(req.RequestLine.Method)

(***************************************************************************)
(* C9.  A complete request line with two space delimiters whose version    *)
(* part is not "HTTP/1.1" is rejected with UnsupportedVersion; every       *)
(* accepted request line has HttpVersion "1.1".                            *)
(***************************************************************************)
VersionPart(in) == JoinSP(SubSeq(in.parts, 3, Len(in.parts)))

C10_MissingDelimiter ==
    (input.rlTerm /\ Len(input.parts) < 3 /\ pos >= Len(JoinSP(input.parts)) + 2) =>
        /\ pc = "returned" /\ ret.isNil
        /\ ret.err \in {ERROR_PARSING_METHOD_IN_REQUEST_LINE,
                        ERROR_PARSING_TARGET_IN_REQUEST_LINE}
        /\ Consumed = 0

\* A request line with a single space has been rejected.
C10_Witness ==
    /\ pc = "returned" /\ input.rlTerm /\ Len(input.parts) = 2
    /\ ret.isNil /\ ret.err = ERROR_PARSING_TARGET_IN_REQUEST_LINE

(***************************************************************************)
(* Offsets of the field lines in the stream.                               *)
(***************************************************************************)
\* Offset just after the CRLF of the request line.
LineEnd(in) == Len(JoinSP(in.parts)) + 2
\* Offset just after the CRLF of the k-th field line.
FieldEnd(in, k) == LineEnd(in) + Len(FieldsBytes(SubSeq(in.fields, 1, k)))

(***************************************************************************)
(* C11.  A complete, non-empty field line without a colon is rejected with *)
(* NoColon: once the source has delivered the line and its CRLF after a    *)
(* well-formed request line and well-formed field lines, RequestFromReader *)
(* has returned that error and no Request, for every chunking and whatever *)
(* follows the line in the stream.                                         *)
(***************************************************************************)
C11_NoColonRejected ==
    \A k \in 1..Len(input.fields) :
        ( /\ WellFormedLine(input)
          /\ \A i \in 1..(k - 1) : WellFormedField(input.fields[i])
          /\ FieldBytes(input.fields[k]) # <<>>
          /\ ~HasByte(FieldBytes(input.fields[k]), 58)
          /\ pos >= FieldEnd(input, k) ) =>
            pc = "returned" /\ ret.isNil /\ ret.err = ErrNoColon

\* A line without a colon, after a well-formed field line and before the
\* blank line, has been rejected before the source was read to its end.
C11_Witness ==
    /\ pc = "returned" /\ ret.isNil /\ ret.err = ErrNoColon
    /\ Len(input.fields) = 2 /\ input.blank
    /\ DOMAIN req.Headers.m # {} /\ pos < Len(data)

(***************************************************************************)
(* The first line of the data a Parse call was given, read off the bytes.  *)
(***************************************************************************)
IsCRLFAt(d, i) == i < Len(d) /\ d[i] = 13 /\ d[i + 1] = 10
\* The data holds a complete line: some CRLF occurs in it.
HasLine(d) == \E i \in 1..Len(d) : IsCRLFAt(d, i)
\* 1-based position of the first CRLF.
LineStop(d) == CHOOSE i \in 1..Len(d) : IsCRLFAt(d, i) /\ \A j \in 1..(i - 1) : ~IsCRLFAt(d, j)
\* The bytes before the first CRLF.
LineOf(d) == SubSeq(d, 1, LineStop(d) - 1)
\* 1-based position of the first colon of a line, 0 when it has none.
ColonAt(line) ==
    IF HasByte(line, 58)
    THEN CHOOSE i \in 1..Len(line) : line[i] = 58 /\ \A j \in 1..(i - 1) : line[j] # 58
    ELSE 0

\* The step is a Parse call (hret' holds its argument and its results).
IsParseStep == hret'.op = "Parse"

(***************************************************************************)
(* C12.  Headers.Parse on a complete field line that contains a colon: if  *)
(* the first colon is the first byte of the line the call fails with       *)
(* EmptyKey; otherwise, if the byte just before the first colon is a space *)
(* (a key made only of spaces included) it fails with SpaceBeforeColon.    *)
(* In both cases the map is left as it was.                                *)
(***************************************************************************)
C12_BadKey_Step ==
    [][ (IsParseStep /\ HasLine(hret'.arg) /\ ColonAt(LineOf(hret'.arg)) > 0) =>
          LET line == LineOf(hret'.arg)
              c == ColonAt(line)
          IN  /\ c = 1 => (hret'.err = ErrEmptyKey /\ hdrs' = hdrs)
              /\ (c > 1 /\ line[c - 1] = 32) =>
                    (hret'.err = ErrSpaceBeforeColon /\ hdrs' = hdrs) ]_vars

\* After a line was parsed into the map, a line whose key is a single space
\* has been rejected.
C12_Witness ==
    /\ hret.op = "Parse" /\ hret.err = ErrSpaceBeforeColon
    /\ SubSeq(hret.arg, 1, 2) = <<32, 58>>
    /\ off > 0 /\ DOMAIN hdrs.m # {}

(***************************************************************************)
(* Field names, read off the bytes of a line that holds a colon.           *)
(***************************************************************************)
\* The RFC 9110 token characters: digits, letters and the fifteen symbols.
Tchar ==
    (48..57) \cup (65..90) \cup (97..122)
        \cup {33, 35, 36, 37, 38, 39, 42, 43, 45, 46, 94, 95, 96, 124, 126}

\* The bytes before the first colon, and the name: those bytes without
\* their leading spaces.
KeyOf(line) == SubSeq(line, 1, ColonAt(line) - 1)
NameOf(line) == TrimLeftSpaces(KeyOf(line))
HasOtherByte(name) == \E i \in 1..Len(name) : name[i] \notin Tchar

\* Every key of the map is non-empty, lower-case and made of token characters.
KeysAreTokens ==
    \A k \in DOMAIN hdrs.m :
        k # <<>> /\ \A i \in 1..Len(k) : k[i] \in Tchar /\ ~(k[i] >= 65 /\ k[i] <= 90)

LinesLen == Len(FieldsBytes(input.fields))
ParsedCount ==
    LET at == IF off > LinesLen THEN LinesLen ELSE off
    IN  CHOOSE j \in 0..Len(input.fields) : Len(FieldsBytes(SubSeq(input.fields, 1, j))) = at
ParsedFields == SubSeq(input.fields, 1, ParsedCount)

(***************************************************************************)
(* C14.  After the field lines parsed so far, the map has exactly one      *)
(* entry per field name (letter case ignored), and its value is the values *)
(* of the lines of that name joined by ", " in arrival order, whether the  *)
(* lines of a name were adjacent or had lines of other names in between.   *)
(***************************************************************************)
C14_RepeatedNames ==
    /\ DOMAIN hdrs.m = {ToLower(ParsedFields[i].name) : i \in 1..ParsedCount}
    /\ \A k \in DOMAIN hdrs.m : hdrs.m[k] = JoinedValue(ParsedFields, k)

\* Three lines parsed: the first and third name the same field in different
\* letter case, the second names another field.
C14_Witness ==
    /\ ParsedCount = 3 /\ Cardinality(DOMAIN hdrs.m) = 2
    /\ input.fields[1].name # input.fields[3].name
    /\ ToLower(input.fields[1].name) = ToLower(input.fields[3].name)
    /\ ToLower(input.fields[1].name) # ToLower(input.fields[2].name)

(***************************************************************************)
(* C15.  Header lookup ignores letter case: every parsed field line is     *)
(* stored under its lower-cased name, and a Get call with any casing of a  *)
(* parsed name returns the value stored for that name (and fails only for  *)
(* a name no parsed line has); two keys that differ only in letter case    *)
(* always get the same answer.                                             *)
(***************************************************************************)
SameIgnoringCase(a, b) ==
    /\ Len(a) = Len(b)
    /\ \A i \in 1..Len(a) :
          \/ a[i] = b[i]
          \/ a[i] >= 65 /\ a[i] <= 90 /\ b[i] = a[i] + 32
          \/ b[i] >= 65 /\ b[i] <= 90 /\ a[i] = b[i] + 32

C15_CaseInsensitiveLookup ==
    /\ \A i \in 1..ParsedCount :
          \E k \in DOMAIN hdrs.m :
              /\ SameIgnoringCase(k, ParsedFields[i].name)
              /\ \A j \in 1..Len(k) : ~(k[j] >= 65 /\ k[j] <= 90)
    /\ hret.op = "Get" =>
          IF \E i \in 1..ParsedCount : SameIgnoringCase(hret.arg, ParsedFields[i].name)
          THEN /\ hret.err = NoError
               /\ \E k \in DOMAIN hdrs.m :
                     SameIgnoringCase(k, hret.arg) /\ hret.value = hdrs.m[k]
          ELSE hret.err = ErrKeyDoesntExist /\ hret.value = <<>>
    /\ \A k1, k2 \in LookupKeys :
          SameIgnoringCase(k1, k2) => HeadersGet(hdrs, k1) = HeadersGet(hdrs, k2)

\* The line "Ab:f" was parsed and Get("AB") returned its value.
C15_Witness ==
    /\ hret.op = "Get" /\ hret.arg = <<65, 66>>
    /\ hret.err = NoError /\ hret.value = <<102>>
    /\ \E i \in 1..ParsedCount : ParsedFields[i].name = <<65, 98>>

(***************************************************************************)
(* The blank line.  A Parse call on data that starts with CRLF consumes 2  *)
(* bytes, reports done without error and leaves the map as it was.         *)
(***************************************************************************)
BlankLineParse_Step ==
    [][ (IsParseStep /\ Len(hret'.arg) >= 2 /\ SubSeq(hret'.arg, 1, 2) = CRLF) =>
          /\ hret'.n = 2 /\ hret'.done /\ hret'.err = NoError
          /\ hdrs' = hdrs /\ off' = off + 2 ]_vars

\* The bytes consumed so far end with the blank line that follows a line.
BlankLineConsumed == Consumed >= 4 /\ SubSeq(data, Consumed - 3, Consumed) = CRLF \o CRLF

(***************************************************************************)
(* C16.  In RequestFromReader the headers phase ends only by the blank     *)
(* line: every step that takes the state from ParsingHeaders to Done has   *)
(* consumed a blank line (2 bytes, no error, no entry added), and the      *)
(* Request is returned without error.                                      *)
(***************************************************************************)
C16_OnlyBlankLineEndsHeaders_Step ==
    [][ (req.state = requestStateParsingHeaders /\ req'.state = requestStateDone) =>
          /\ BlankLineConsumed'
          /\ ret' = [isNil |-> FALSE, err |-> NoError]
          /\ DOMAIN req'.Headers.m =
                {ToLower(input.fields[i].name) : i \in 1..Len(input.fields)} ]_vars

(***************************************************************************)
(* C17.  One Parse call consumes at most one field line.  On data whose    *)
(* first line is a valid field line the call returns n = offset of the     *)
(* first CRLF + 2 with done = false and no error, whatever follows the     *)
(* line (more lines, the blank line, an unfinished line); it sets the      *)
(* entry of that line's name and leaves every other entry as it was; and   *)
(* the next call is made on data[n:], the start of the next line.          *)
(***************************************************************************)
\* A valid field line: a colon, and before it a non-empty name of token
\* characters (after optional leading spaces).
ValidLineBytes(line) ==
    /\ ColonAt(line) > 1
    /\ NameOf(line) # <<>>
    /\ ~HasOtherByte(NameOf(line))

C17_OneLinePerCall_Step ==
    [][ (IsParseStep /\ HasLine(hret'.arg) /\ ValidLineBytes(LineOf(hret'.arg))) =>
          LET line == LineOf(hret'.arg)
              k == ToLower(NameOf(line))
          IN  /\ hret'.arg = Drop(data, off)
              /\ hret'.err = NoError /\ ~hret'.done
              /\ hret'.n = Len(line) + 2
              /\ off' = off + Len(line) + 2
              /\ DOMAIN hdrs'.m = DOMAIN hdrs.m \cup {k}
              /\ \A j \in DOMAIN hdrs.m \ {k} : hdrs'.m[j] = hdrs.m[j] ]_vars

\* The second of three lines that are followed by the blank line has been
\* parsed: two entries, and the third line and the blank line still ahead.
C17_Witness ==
    /\ hret.op = "Parse" /\ hret.err = NoError
    /\ Len(input.fields) = 3 /\ input.blank /\ ParsedCount = 2
    /\ Cardinality(DOMAIN hdrs.m) = 2
    /\ off = Len(data) - Len(hret.arg) + hret.n
    /\ hret.n < Len(hret.arg) - 2

(***************************************************************************)
(* C18.  When the stream ends in the middle of the headers, after a        *)
(* well-formed request line and well-formed field lines, with a last line  *)
(* that has no CRLF, RequestFromReader returns a Request and no error; the *)
(* Request holds the entries of the complete field lines and nothing from  *)
(* the incomplete line.                                                    *)
(***************************************************************************)
EndsMidHeaders(in) ==
    /\ WellFormedLine(in)
    /\ \A i \in 1..Len(in.fields) : WellFormedField(in.fields[i])
    /\ ~in.blank /\ in.tail # <<>> /\ ~HasLine(in.tail)

UnitEnd(in, k) == IF k = 0 THEN LineEnd(in) ELSE FieldEnd(in, k)
UnitErr(in, k) ==
    IF k = 0 THEN parseRequestLine(JoinSP(in.parts) \o CRLF).err
    ELSE HeadersParse(NewHeaders, FieldBytes(in.fields[k]) \o CRLF).err
\* The units whose sub-parser reports an error, with all units before them
\* accepted (there is at most one).
ErrUnits(in) ==
    {k \in 0..Len(in.fields) :
        /\ in.rlTerm
        /\ UnitErr(in, k) # NoError
        /\ \A j \in 0..(k - 1) : UnitErr(in, j) = NoError}

(***************************************************************************)
(* C19.  As soon as a sub-parser reports an error, that is once the source *)
(* has delivered the last byte of the first unit a sub-parser rejects,     *)
(* RequestFromReader has returned that error and no Request, also when the *)
(* units before it were parsed from the same buffer; and after the return  *)
(* nothing is read or parsed any more.                                     *)
(***************************************************************************)
C19_ErrorAborts_P ==
    /\ [](\A k \in ErrUnits(input) :
            pos >= UnitEnd(input, k) =>
                pc = "returned" /\ ret.isNil /\ ret.err = UnitErr(input, k))
    /\ [][pc = "returned" =>
            (pos' = pos /\ buf' = buf /\ req' = req /\ ret' = ret /\ pc' = pc)]_vars

\* A single Read delivered the request line, a field line that was parsed
\* into the map and a field line that was rejected.
C19_Witness ==
    /\ pc = "returned" /\ ret.isNil /\ ret.err = ErrInvalidCharInKey
    /\ Len(input.fields) = 2 /\ pos = FieldEnd(input, 2)
    /\ buf = SubSeq(data, 1, pos)
    /\ DOMAIN req.Headers.m # {}

(***************************************************************************)
(* What the io.Writer under the Writer has received.                       *)
(***************************************************************************)
\* A Write of a whole status line, and of the whole blank line, was taken:
\* a WriteStatusLine call, and a WriteHeaders call, has succeeded.
StatusWritten == \E i \in 1..Len(sent) : sent[i].part = "status" /\ sent[i].whole
HeadersWritten == \E i \in 1..Len(sent) : sent[i].part = "blank" /\ sent[i].whole

\* The step is a call on the Writer (wret' holds its op and its error).
IsWriterCall == wcalls' = wcalls + 1

\* Each method succeeds only in its turn, and a call made before its turn
\* returns an error and sends nothing.
Gated ==
    IsWriterCall =>
        /\ wret'.op = "WriteStatusLine" =>
              /\ wret'.err = NoError => ~StatusWritten
              /\ StatusWritten => (wret'.err # NoError /\ sent' = sent)
        /\ wret'.op = "WriteHeaders" =>
              /\ wret'.err = NoError => StatusWritten
              /\ ~StatusWritten => (wret'.err # NoError /\ sent' = sent)
        /\ wret'.op = "WriteBody" =>
              /\ wret'.err = NoError => HeadersWritten
              /\ ~HeadersWritten => (wret'.err # NoError /\ sent' = sent)

\* 1 for the status line, 2 for header lines and the blank line, 3 for body.
Phase(piece) ==
    IF piece.part = "status" THEN 1 ELSE IF piece.part = "body" THEN 3 ELSE 2

\* The pieces are in the order of the three phases: the bytes of a status
\* line, then of header lines and the blank line, then of the body.  Header
\* bytes come only after a whole status line, body bytes only after the whole
\* blank line, and nothing of a phase comes after its closing piece.
PhasesInOrder ==
    /\ \A i, j \in 1..Len(sent) : i < j => Phase(sent[i]) <= Phase(sent[j])
    /\ \A j \in 1..Len(sent) :
          /\ Phase(sent[j]) = 2 =>
                \E i \in 1..(j - 1) : sent[i].part = "status" /\ sent[i].whole
          /\ Phase(sent[j]) = 3 =>
                \E i \in 1..(j - 1) : sent[i].part = "blank" /\ sent[i].whole
          /\ (sent[j].part = "status" /\ sent[j].whole) =>
                \A k \in (j + 1)..Len(sent) : Phase(sent[k]) > 1
          /\ (sent[j].part = "blank" /\ sent[j].whole) =>
                \A k \in (j + 1)..Len(sent) : Phase(sent[k]) > 2

\* Every piece is a whole one: the bytes received are whole lines and bodies.
OnlyWholePieces == \A i \in 1..Len(sent) : sent[i].whole

\* The bytes received are the beginning of a status line, header lines, the
\* blank line and body bytes: only the last piece may be cut short.
WholeButLast == \A i \in 1..(Len(sent) - 1) : sent[i].whole

(***************************************************************************)
(* C20 as stated.  In every sequence of calls on a Writer each method      *)
(* succeeds only in its turn and a premature call returns an error; and    *)
(* the bytes the underlying writer has received are always a status line,  *)
(* then header lines and the blank line, then body bytes.                  *)
(***************************************************************************)
C20_Original_P ==
    /\ [][Gated]_vars
    /\ [](PhasesInOrder /\ WholeButLast)

(***************************************************************************)
(* C20, amended.  Each method succeeds only in its turn and a premature    *)
(* call returns an error and sends nothing.  The bytes the underlying      *)
(* writer has received are in the order of the three phases (status line,  *)
(* header lines and blank line, body), but a call whose underlying Write   *)
(* failed after taking part of its bytes can be made again, and then the   *)
(* bytes of the failed Write precede those of the repeated call; when no   *)
(* Write has failed, the bytes are exactly the status line, the header     *)
(* lines, the blank line and body bytes.                                   *)
(***************************************************************************)
C20_ThreePhases_P ==
    /\ [][Gated]_vars
    /\ []PhasesInOrder
    /\ [][(OnlyWholePieces /\ wret'.err = NoError) => OnlyWholePieces']_vars

\* A status line whose first Write failed part-way and was sent again, then
\* headers and a body: four calls, the first piece not a whole one.
C20_Witness ==
    /\ wcalls = 4 /\ wret.op = "WriteBody" /\ wret.err = NoError
    /\ Len(sent) >= 5
    /\ sent[1].part = "status" /\ ~sent[1].whole
    /\ sent[2].part = "status" /\ sent[2].whole
    /\ sent[Len(sent)].part = "body"

(***************************************************************************)
(* The Server.                                                             *)
(***************************************************************************)
\* The bytes the worker of c has read from its connection.
ReadSoFar(c) == SubSeq(conns[c].stream, 1, conns[c].rpos)
\* The bytes hold a whole request: the blank line has been read.
HasBlankLine(b) == Index(b, CRLF \o CRLF) # -1
\* The worker of c has returned from handle.
WorkerDone(c) == conns[c].wpc = "closed"
\* The handler was called for c without a whole request having been read.
HandledIncomplete(c) == conns[c].handled > 0 /\ ~HasBlankLine(ReadSoFar(c))

\* C21: for every connection the handler is invoked at most once and only
\* after the whole request was read; when the parse ends on a fatal condition
\* (an error, or the peer closing before the blank line) the handler is not
\* invoked, nothing is written to the connection and the connection is
\* closed.
C21_HandlerOnlyOnCompleteRequest ==
    \A c \in ConnIds :
        /\ conns[c].handled <= 1
        /\ conns[c].handled > 0 => HasBlankLine(ReadSoFar(c))
        /\ (WorkerDone(c) /\ (conns[c].err # NoError \/ ~HasBlankLine(ReadSoFar(c))))
              => /\ conns[c].handled = 0
                 /\ conns[c].out = NoOutput
                 /\ conns[c].closes = 1

\* What the server does keep: at most one handler call per connection, and
\* after a parse error no handler call, no byte written, one conn.Close().
ParseErrorClosesSilently ==
    \A c \in ConnIds :
        /\ conns[c].handled <= 1
        /\ conns[c].closes <= 1
        /\ WorkerDone(c) => conns[c].closes = 1
        /\ conns[c].err # NoError
              => WorkerDone(c) /\ conns[c].handled = 0 /\ conns[c].out = NoOutput

\* Close has been called (its first statement sets the flag).
CloseCalled == cpc # "idle"
\* The step starts a worker: go s.handle(conn).
IsDispatch == \E c \in ConnIds : conns[c].wpc = "accepted" /\ conns'[c].wpc = "parse"
\* The step is an Accept that returns a connection.
IsAccept == \E c \in ConnIds : conns[c].wpc = "queued" /\ conns'[c].wpc = "accepted"
\* The flag is set whenever the listener is closed, so the Accept error that
\* Close causes finds it set and ends the loop.
FlagBeforeListener_P ==
    /\ [](listener = "closed" => isClosed)
    /\ [][(lpc = "failed" /\ lpc' # lpc /\ isClosed) => lpc' = "exited"]_vars
\* An Accept error met without the flag is logged and the loop accepts again;
\* the loop ends only with the flag set.
ErrorKeepsLoop_P ==
    /\ [][(lpc = "failed" /\ lpc' # lpc /\ ~isClosed)
             => (lpc' = "accept" /\ logged' = logged + 1)]_vars
    /\ [][(lpc # "exited" /\ lpc' = "exited") => CloseCalled]_vars

\* C22 as stated: once Close has been called the accept loop eventually
\* exits, and no connection is dispatched from the call on; the flag is set
\* before the listener is closed; without the flag an Accept error never
\* stops the loop.
C22_Original_P ==
    /\ CloseCalled ~> (lpc = "exited")
    /\ [][CloseCalled => ~IsDispatch]_vars
    /\ FlagBeforeListener_P
    /\ ErrorKeepsLoop_P

\* C22, amended: once Close has been called the accept loop eventually exits
\* and then dispatches nothing; once Close has returned no connection is
\* accepted, so only a connection Accept had returned before can still be
\* dispatched; the flag is set before the listener is closed; without the
\* flag an Accept error never stops the loop.
C22_CloseStopsAccepting_P ==
    /\ CloseCalled ~> (lpc = "exited")
    /\ [][lpc = "exited" => (lpc' = "exited" /\ ~IsDispatch /\ ~IsAccept)]_vars
    /\ [][cpc = "returned" => ~IsAccept]_vars
    /\ FlagBeforeListener_P
    /\ ErrorKeepsLoop_P

\* The loop has exited after Close, having got over an Accept error before,
\* with one connection dispatched and one left in the queue.
C22_Witness ==
    /\ lpc = "exited" /\ cpc = "returned" /\ logged = MaxAcceptErrors
    /\ conns[1].wpc \in {"parse", "handle", "closed"}
    /\ conns[2].wpc = "queued"

\* RequestFromReader run alone on the bytes the worker of c has read so far.
Alone(c) == parse(newRequest, ReadSoFar(c))
\* The worker of c waits in Read for bytes its peer has not sent.
Stalled(c) == conns[c].wpc = "parse" /\ conns[c].rpos = conns[c].sent /\ ~conns[c].peerClosed
\* The worker's Request, buffer, error and output are those of its own bytes.
OwnStreamOnly(c) ==
    /\ conns[c].err \in {Alone(c).err, ReadFailure}
    /\ conns[c].err # Alone(c).err => Alone(c).err = NoError
    /\ Alone(c).err = NoError =>
          /\ conns[c].req.RequestLine = Alone(c).r.RequestLine
          /\ conns[c].req.Headers = Alone(c).r.Headers
          /\ conns[c].req.state \in {Alone(c).r.state, requestStateDone}
          /\ conns[c].buf = Drop(ReadSoFar(c), Alone(c).n)
    /\ conns[c].out = IF conns[c].handled > 0 THEN handler(conns[c].req) ELSE NoOutput

\* C23: in every reachable state, whatever the other connection has done,
\* each worker's Request, buffer and error are what RequestFromReader yields
\* on that connection's own bytes alone and the response is the handler's for
\* that Request; and while a worker is stalled in Read, the accept loop can
\* still take its next step (accept a queued connection, start its worker).
C23_WorkersIsolated ==
    /\ \A c \in ConnIds : OwnStreamOnly(c)
    /\ ((\E c \in ConnIds : Stalled(c)) /\ listener = "open")
          => /\ (lpc = "accept" /\ \E d \in ConnIds : conns[d].wpc = "queued") => ENABLED Accept
             /\ lpc = "dispatch" => ENABLED Dispatch

\* The first worker is stalled with half a request line in its buffer while
\* the second connection, opened later, has been served to the end.
C23_Witness ==
    /\ Stalled(1) /\ conns[1].buf # <<>>
    /\ conns[2].wpc = "closed" /\ conns[2].handled = 1
    /\ conns[2].req.Headers.isNil = FALSE /\ DOMAIN conns[2].req.Headers.m # {}

\* The worker of c is handling its connection.
InFlight(c) == conns[c].wpc \in {"parse", "handle"}

\* C24: the steps of Close change nothing of any connection or worker and
\* never wait for one (the second step is always ready once the first is
\* done); a worker in flight after Close was called still goes on: with a
\* Request in hand it calls the handler once and closes its connection, and
\* while parsing it gets there once it has read all its peer sent before
\* closing; every worker that returns has closed its connection exactly once.
C24_CloseLeavesWorkers_P ==
    /\ [][cpc' # cpc => conns' = conns]_vars
    /\ [](cpc = "stored" => ENABLED CloseListener)
    /\ [](\A c \in ConnIds : WorkerDone(c) => conns[c].closes = 1)
    /\ \A c \in ConnIds :
          (CloseCalled /\ conns[c].wpc = "handle")
              ~> (WorkerDone(c) /\ conns[c].handled = 1 /\ conns[c].out # NoOutput)
    /\ \A c \in ConnIds :
          (CloseCalled /\ conns[c].wpc = "parse" /\ conns[c].peerClosed
              /\ conns[c].rpos = conns[c].sent) ~> WorkerDone(c)

\* Close has returned and the accept loop has exited while one worker holds
\* a parsed Request and the other is still reading.
C24_Witness ==
    /\ cpc = "returned" /\ lpc = "exited"
    /\ conns[1].wpc = "handle" /\ HasBlankLine(ReadSoFar(1))
    /\ conns[2].wpc = "parse" /\ conns[2].rpos > 0

(***************************************************************************)
(* The request-line step and the buffer of RequestFromReader.              *)
(***************************************************************************)
\* The request line of a well-formed stream, as it is to be stored.
StoredLine(in) ==
    [HttpVersion |-> <<49, 46, 49>>, RequestTarget |-> in.parts[2], Method |-> in.parts[1]]
\* The request-line step run on the bytes delivered so far.
FirstStep == parseSingle(newRequest, SubSeq(data, 1, pos))
\* Nothing of the Request is set once it is past Initialized, or as long as
\* it is Initialized.
LineKept_Step ==
    /\ req.state # requestStateInitialized
          => (req'.state # requestStateInitialized /\ req'.RequestLine = req.RequestLine)
    /\ req'.state = requestStateInitialized
          => (req'.RequestLine = NoRequestLine /\ req'.Headers.isNil)

\* C25: for a stream with a well-formed request line: as soon as the whole
\* line has been delivered, the request-line step on the delivered bytes
\* consumes the line length plus 2, stores the three parts and leaves the
\* state ParsingHeaders, and the Request of the driver holds that line with
\* at least those bytes consumed; before that nothing is stored or consumed
\* and no field is parsed.  For every stream, a Request past Initialized
\* never goes back and its request line is never stored again.
C25_RequestLineStep_P ==
    /\ [](WellFormedLine(input) /\ pc # "idle" /\ pos >= LineEnd(input)
            => /\ FirstStep.err = NoError
               /\ FirstStep.n = Len(JoinSP(input.parts)) + 2
               /\ FirstStep.r.RequestLine = StoredLine(input)
               /\ FirstStep.r.state = requestStateParsingHeaders
               /\ req.RequestLine = StoredLine(input)
               /\ req.state # requestStateInitialized
               /\ ret.err = NoError => Consumed >= LineEnd(input))
    /\ [](WellFormedLine(input) /\ pc # "idle" /\ pos < LineEnd(input)
            => /\ FirstStep.n = 0 /\ FirstStep.r = newRequest
               /\ req.RequestLine = NoRequestLine /\ req.Headers.isNil
               /\ Consumed = 0
               /\ readErr # "EOF" => req.state = requestStateInitialized)
    /\ [][LineKept_Step]_vars

\* The request line has been consumed, no more, and the start of a field
\* line waits in the buffer.
C25_Witness ==
    /\ WellFormedLine(input) /\ pc = "loop"
    /\ req.state = requestStateParsingHeaders /\ req.RequestLine = StoredLine(input)
    /\ Consumed = LineEnd(input) /\ buf # <<>>

\* The request line is complete and has both faults: a method with a byte
\* outside 'A'-'Z' and a version other than HTTP/1.1.
BothFaults(in) ==
    /\ in.rlTerm /\ Len(in.parts) = 3
    /\ ~IsUpperAlpha(in.parts[1])
    /\ in.parts[3] # HTTP11

\* C26: a complete request line with both a bad method and a version other
\* than HTTP/1.1 is rejected with InvalidMethod, not with UnsupportedVersion.
C26_MethodBeforeVersion ==
    (Returned /\ BothFaults(input))
        => /\ ret.isNil
           /\ ret.err = ErrorInvalidMethod(input.parts[1])
           /\ ret.err # ErrorInvalidVersion(input.parts[3])

(***************************************************************************)
(* Headers.Parse, called directly.                                         *)
(***************************************************************************)
\* C27: a call of Headers.Parse that returns n = 0 leaves the map exactly as
\* it was and returns done = false; n = 0 is returned when the data holds no
\* CRLF (without an error) and with every error.
C27_ZeroLeavesMap_Step ==
    [][IsParseStep =>
          /\ hret'.n = 0 => (hdrs' = hdrs /\ ~hret'.done)
          /\ hret'.err # NoError => hret'.n = 0
          /\ Index(hret'.arg, CRLF) = -1 => (hret'.n = 0 /\ hret'.err = NoError)]_vars

\* A line with a bad key byte has been rejected with two entries in the map.
C27_Witness ==
    /\ hret.op = "Parse" /\ hret.n = 0 /\ hret.err = ErrInvalidCharInKey
    /\ Cardinality(DOMAIN hdrs.m) = 2

\* A valid field line that may have spaces before its name.
FieldWithLead(f) ==
    /\ WellFormedField([f EXCEPT !.lead = <<>>])
    /\ \A i \in 1..Len(f.lead) : f.lead[i] = 32
\* The line the next Parse call meets, when the calls so far ended at a line
\* boundary and lines are left.
AtLine == off < LinesLen
NextField == input.fields[ParsedCount + 1]

\* C28: a Parse call on a valid field line (spaces allowed before the name,
\* whitespace around the value, colons inside the value) succeeds, returns
\* n = the whole line's length + 2, and stores under the lower-cased name,
\* without the leading spaces, the text after the first colon without the
\* whitespace around it (appended to the name's earlier value, if any).
C28_TrimmedValue_Step ==
    [][ (IsParseStep /\ AtLine /\ FieldWithLead(NextField)) =>
          LET f == NextField
              k == ToLower(f.name)
          IN  /\ hret'.err = NoError
              /\ hret'.n = Len(FieldBytes(f)) + 2
              /\ k \in DOMAIN hdrs'.m
              /\ hdrs'.m[k] = IF k \in DOMAIN hdrs.m
                              THEN hdrs.m[k] \o <<44, 32>> \o f.value
                              ELSE f.value ]_vars

\* The line " a: e" has just been parsed after "A:c:d \t": the call took all
\* 7 bytes, and the value under "a" is "c:d, e".
C28_Witness ==
    /\ hret.op = "Parse" /\ hret.err = NoError /\ hret.n = 7
    /\ ParsedCount = 2
    /\ input.fields[2].lead = <<32>>
    /\ input.fields[1].value = <<99, 58, 100>> /\ input.fields[1].ows2 = <<32, 9>>
    /\ hdrs.m[<<97>>] = <<99, 58, 100, 44, 32, 101>>

\* The bytes delivered so far and the offset just after their last CRLF.
Delivered == SubSeq(data, 1, pos)
AfterLastLine ==
    IF HasLine(Delivered)
    THEN 1 + (CHOOSE i \in 1..pos : IsCRLFAt(Delivered, i)
                                    /\ \A j \in (i + 1)..pos : ~IsCRLFAt(Delivered, j))
    ELSE 0

\* C29: whenever RequestFromReader is about to read again (it has not
\* returned, so the state is not Done), the unconsumed buffer holds no CRLF:
\* every complete line delivered so far has been consumed, and the buffer is
\* what was delivered after the last of them.
C29_NoCompleteUnitLeft ==
    pc = "loop" =>
        /\ req.state # requestStateDone
        /\ ~HasLine(buf)
        /\ Consumed = AfterLastLine
        /\ buf = SubSeq(data, AfterLastLine + 1, pos)

\* About to read again with the request line and two field lines consumed
\* and the start of the next line in the buffer.
C29_Witness ==
    /\ pc = "loop" /\ Len(input.fields) = 2
    /\ Consumed = FieldEnd(input, 2)
    /\ Cardinality(DOMAIN req.Headers.m) = 2
    /\ buf # <<>>

\* RequestFromReader has returned the error of a sub-parser (it returns
\* before the buffer is slid).
ParseFailed == pc = "returned" /\ ret.isNil /\ readErr = "nil"
\* The offsets at which a unit of the stream ends: the request line, each
\* field line, the blank line.
UnitEnds(in) ==
    (IF in.rlTerm THEN {LineEnd(in)} ELSE {})
        \cup (IF in.rlTerm THEN {FieldEnd(in, k) : k \in 1..Len(in.fields)} ELSE {})
        \cup (IF in.rlTerm /\ in.blank THEN {FieldEnd(in, Len(in.fields)) + 2} ELSE {})
\* The field lines that end at or before the consumed count.
ConsumedFields ==
    SubSeq(input.fields, 1,
           Cardinality({k \in 1..Len(input.fields) : FieldEnd(input, k) <= Consumed}))

\* C30: in every state of the read loop, and after a return without a parse
\* error: the consumed count lies within the delivered bytes, at 0 or at the
\* end of a unit, and the buffer is exactly the delivered bytes after it; the
\* Request holds what the consumed units say, each once: the request line
\* iff the count has passed it, and per field name the values of the
\* consumed field lines in order, nothing of the request line among them.
C30_ConsumedThenBuffer ==
    (pc # "idle" /\ ~ParseFailed) =>
        /\ Consumed \in 0..pos
        /\ Consumed \in {0} \cup UnitEnds(input)
        /\ buf = SubSeq(data, Consumed + 1, pos)
        /\ SubSeq(data, 1, Consumed) \o buf = SubSeq(data, 1, pos)
        /\ Consumed = 0 => (req.RequestLine = NoRequestLine /\ req.Headers.isNil)
        /\ Consumed > 0 =>
              /\ Len(input.parts) = 3
              /\ req.RequestLine = StoredLine(input)
              /\ DOMAIN req.Headers.m = {ToLower(ConsumedFields[i].name) : i \in 1..Len(ConsumedFields)}
              /\ \A k \in DOMAIN req.Headers.m : req.Headers.m[k] = JoinedValue(ConsumedFields, k)

\* In the loop with the request line and two field lines of the same name
\* consumed and bytes of the next unit in the buffer.
C30_Witness ==
    /\ pc = "loop" /\ Len(input.fields) = 2
    /\ Consumed = FieldEnd(input, 2) /\ buf # <<>>
    /\ Cardinality(DOMAIN req.Headers.m) = 1

(***************************************************************************)
(* The Writer's phase.                                                     *)
(***************************************************************************)
\* The call of the step is made out of its phase.
OutOfPhase ==
    \/ wret'.op = "WriteStatusLine" /\ wstate # StateStatusPending
    \/ wret'.op = "WriteHeaders" /\ wstate # StateHeadersPending
    \/ wret'.op = "WriteBody" /\ wstate # StateBodyPending
\* The pieces the step has added to what the underlying writer received.
Added == SubSeq(sent', Len(sent) + 1, Len(sent'))

\* C31: a Writer call made out of its phase returns an error, writes nothing
\* and leaves the phase as it was; a WriteStatusLine or WriteHeaders call
\* whose underlying Write fails returns that error and leaves the phase as it
\* was; the phase changes only in a call that returns no error, all of whose
\* writes were taken whole.
C31_FailedCallKeepsPhase_Step ==
    [][IsWriterCall =>
          /\ OutOfPhase => (wret'.err # NoError /\ sent' = sent /\ wstate' = wstate)
          /\ (~OutOfPhase /\ \E i \in 1..Len(Added) : ~Added[i].whole)
                => (wret'.err = WriteFailure /\ wstate' = wstate)
          /\ (wret'.op \in {"WriteStatusLine", "WriteHeaders"} /\ wret'.err # NoError)
                => wstate' = wstate
          /\ wstate' # wstate
                => /\ wret'.err = NoError
                   /\ Added # <<>>
                   /\ \A i \in 1..Len(Added) : Added[i].whole ]_vars

\* WriteHeaders has failed after one whole header line and part of the next:
\* the Writer still waits for the headers.
C31_Witness ==
    /\ wret.op = "WriteHeaders" /\ wret.err = WriteFailure
    /\ wstate = StateHeadersPending
    /\ Len(sent) = 3 /\ sent[2].whole /\ ~sent[3].whole /\ sent[3].part = "header"

(***************************************************************************)
(* The closing of connections.                                             *)
(***************************************************************************)
\* What a step that closes the connection of c looks like: the one
\* conn.Close() of a worker that returns, either after a failed parse with no
\* handler call, or together with the return of the handler.
ClosesOnReturn(c) ==
    /\ conns'[c].closes = conns[c].closes + 1
    /\ InFlight(c) /\ conns'[c].wpc = "closed"
    /\ \/ conns[c].wpc = "parse" /\ conns'[c].err # NoError /\ conns'[c].handled = 0
       \/ conns[c].wpc = "handle" /\ conns'[c].handled = 1 /\ conns'[c].err = NoError

\* C32: a connection is closed only by its worker, in the step in which the
\* worker returns (after a failed parse, or after the handler); the handler
\* is only ever called, and the response written, on a connection that is
\* not yet closed; a connection is never closed twice and nothing is done on
\* it after the close; a worker that holds a parsed Request gets to close its
\* connection.
C32_ClosedOnceOnReturn_P ==
    /\ [](\A c \in ConnIds :
            /\ conns[c].closes <= 1
            /\ conns[c].closes = 1 <=> WorkerDone(c))
    /\ [][\A c \in ConnIds :
            /\ conns'[c].closes # conns[c].closes => ClosesOnReturn(c)
            /\ (conns'[c].handled # conns[c].handled \/ conns'[c].out # conns[c].out)
                  => conns[c].closes = 0
            /\ WorkerDone(c) => conns'[c] = conns[c]]_vars
    /\ \A c \in ConnIds : (conns[c].wpc = "handle") ~> (conns[c].closes = 1)

\* Both paths: the first connection closed after a rejected request line with
\* no handler call, the second closed after its handler has written.
C32_Witness ==
    /\ WorkerDone(1) /\ conns[1].err # NoError /\ conns[1].err # ReadFailure
    /\ conns[1].handled = 0 /\ conns[1].closes = 1
    /\ WorkerDone(2) /\ conns[2].handled = 1 /\ conns[2].closes = 1
    /\ conns[2].out # NoOutput

(***************************************************************************)
(* The step that closes the channel.                                       *)
(***************************************************************************)
ClosesChannel == chanClosed' /\ ~chanClosed

(***************************************************************************)
(* C33.  The goroutine of getLinesChannel never sends on the channel once  *)
(* it is closed: no send panics and the buffer of a closed channel never   *)
(* grows.  It closes the channel only after f.Read reported io.EOF or an   *)
(* error and after the line still held in str, if any, was sent, and it    *)
(* closes f in the same go.  With f.Read returning and main receiving      *)
(* again and again, the channel does get closed and main's range loop      *)
(* ends, for every stream and every split into reads.                      *)
(***************************************************************************)
C33_ChannelClosedAtEnd_P ==
    /\ [](gpc # "panic" /\ Len(chan) <= ChanCap)
    /\ [][chanClosed => Len(chan') <= Len(chan)]_vars
    /\ [][ClosesChannel =>
            /\ rerr \in {"EOF", "error"}
            /\ fClosed'
            /\ Len(str) # 0 => (lines \o chan # <<>> /\ (lines \o chan)[Len(lines \o chan)] = str)]_vars
    /\ [](mpc = "done" => chanClosed /\ chan = <<>> /\ gpc = "done")
    /\ <>(chanClosed /\ fClosed)
    /\ <>(mpc = "done")

\* main's loop has ended after a read error in the middle of a stream, having
\* received a line that ended in a newline and the unfinished one after it.
C33_Witness ==
    /\ mpc = "done"
    /\ rerr = "error"
    /\ rd < Len(src)
    /\ Len(lines) = 2
    /\ lines[2] = str
    /\ Len(str) # 0

(***************************************************************************)
(* The lines of b: the runs of bytes between newline bytes, in order, and  *)
(* the run after the last newline if it is not empty.                      *)
(***************************************************************************)
NewlineAt(b) == {i \in 1..Len(b) : b[i] = 10}
LinesOf(b) ==
    LET nl == NewlineAt(b)
        n == Cardinality(nl)
        nth(k) == CHOOSE i \in nl : Cardinality({j \in nl : j < i}) = k - 1
        start(k) == IF k = 1 THEN 1 ELSE nth(k - 1) + 1
        whole == [k \in 1..n |-> SubSeq(b, start(k), nth(k) - 1)]
        rest == SubSeq(b, start(n + 1), Len(b))
    IN  IF rest = <<>> THEN whole ELSE Append(whole, rest)

\* The bytes f.Read has returned, with or without an error.
ReturnedBytes == SubSeq(src, 1, rd)

(***************************************************************************)
(* C34.  When f.Read has reported io.EOF and main's range loop has ended,   *)
(* the strings main received are the lines of the bytes f.Read returned,   *)
(* in stream order, whatever the split into reads: no returned byte is     *)
(* missing, also not one returned by the Read that reported io.EOF.        *)
(***************************************************************************)
C34_LinesWithoutLoss ==
    (mpc = "done" /\ rerr = "EOF") => (rd = Len(src) /\ lines = LinesOf(ReturnedBytes))

\* What main received is the lines of the bytes returned by the Reads without
\* an error, a prefix of the bytes returned.
LinesOfErrorFreeReads ==
    mpc = "done" => \E k \in 0..rd :
        /\ lines = LinesOf(SubSeq(src, 1, k))
        /\ (rerr = "EOF" /\ k < rd) => rd = Len(src)

(***************************************************************************)
(* Set, Get and Parse calls made on one Headers value, in any order.       *)
(***************************************************************************)
MaxSetLines == 1

SetKeys == { <<97>>, <<65>>, <<97, 66>> }
SetValues == { <<120>>, <<121, 44, 122>> }

InitHeadersSet ==
    /\ input \in {in \in HeaderInputs :
                    /\ Len(in.fields) <= MaxSetLines
                    /\ \A i \in 1..Len(in.fields) : in.fields[i] \in ValidHeaderLines
                    /\ in.blank}
    /\ data = Encode(input)
    /\ hdrs = NewHeaders
    /\ off = 0
    /\ hret = NoCall
    /\ ParserIdle /\ WriterIdle /\ ServerIdle /\ LinesIdle

\* h.Set(key, value)
SetCall ==
    /\ \E key \in SetKeys, value \in SetValues :
         /\ hdrs' = HeadersSet(hdrs, key, value)
         /\ hret' = [op |-> "Set", arg |-> key, n |-> 0,
                     done |-> FALSE, err |-> NoError, value |-> value]
    /\ UNCHANGED <<input, data, pos, buf, req, readErr, pc, ret, off, wvars, svars, lvars>>

NextHeadersSet == ParseCall \/ GetCall \/ SetCall

SpecHeadersSet == InitHeadersSet /\ [][NextHeadersSet]_vars

\* Two names that differ at most in the case of their letters.
SameName(k1, k2) == ToLower(k1) = ToLower(k2)

(***************************************************************************)
(* C35.  After h.Set(k, v), Get of any name equal to k but for the case of *)
(* its letters returns v and no error, whatever was stored under the name  *)
(* before (the old value is replaced, not joined with a comma), and the    *)
(* entries of other names stay as they were.  A Get never changes the map, *)
(* and Get of a name that no key of the map equals, case ignored, returns  *)
(* "" and ErrKeyDoesntExist.                                               *)
(***************************************************************************)
C35_SetThenGet_Step ==
    [][/\ hret'.op = "Set" =>
            /\ \A k \in LookupKeys : SameName(k, hret'.arg) =>
                   HeadersGet(hdrs', k) = [value |-> hret'.value, err |-> NoError]
            /\ \A k \in DOMAIN hdrs.m : ~SameName(k, hret'.arg) =>
                   (k \in DOMAIN hdrs'.m /\ hdrs'.m[k] = hdrs.m[k])
       /\ hret'.op = "Get" =>
            /\ hdrs' = hdrs
            /\ (hret.op = "Set" /\ SameName(hret.arg, hret'.arg)) =>
                   (hret'.err = NoError /\ hret'.value = hret.value)
            /\ (\A k \in DOMAIN hdrs.m : ~SameName(k, hret'.arg)) =>
                   (hret'.err = ErrKeyDoesntExist /\ hret'.value = <<>>)]_vars

\* "a: b" was parsed, Set stored another value under "A", and Get("a")
\* returned that value alone.
C35_Witness ==
    /\ hret.op = "Get" /\ hret.arg = <<97>> /\ hret.err = NoError
    /\ hret.value = <<121, 44, 122>>
    /\ off > 0 /\ Len(input.fields) = 1 /\ input.fields[1].name = <<97>>
    /\ input.fields[1].value = <<98>>

(***************************************************************************)
(* C36.  RequestFromReader terminates on every stream that ends: each loop *)
(* iteration either returns or has taken at least one more byte from the   *)
(* source, of which there are finitely many, and at the end of the stream  *)
(* the Read of io.EOF ends the loop whatever is left in the buffer.  So    *)
(* with every Read returning, the function returns, and it returns either  *)
(* a Request and no error or no Request and an error.                      *)
(***************************************************************************)
C36_Terminates_P ==
    /\ [][pc = "loop" => (pc' = "returned" \/ pos' > pos)]_vars
    /\ [](pos <= Len(data))
    /\ [](pc = "returned" => (ret.isNil <=> ret.err # NoError))
    /\ <>(pc = "returned")

\* The stream ended in the middle of a line: the buffer holds bytes no unit
\* can be made of, and the Read of io.EOF made the function return.
C36_Witness ==
    /\ pc = "returned" /\ readErr = "EOF"
    /\ pos = Len(data) /\ buf # <<>> /\ Index(buf, CRLF) = -1
    /\ ~ret.isNil

\* RequestFromReader returned because parse reached Done.
ReturnedDone == pc = "returned" /\ ~ret.isNil /\ readErr = "nil"
\* The stream cut after the blank line.
HeadBytes == SubSeq(data, 1, HeadEnd(input))

(***************************************************************************)
(* C37.  Once the state is Done, RequestFromReader has returned: every     *)
(* Read, and the parse that follows it, is made in a state other than      *)
(* Done, and nothing happens after the return.  When parse reached Done,   *)
(* what was consumed is the message up to its blank line; the bytes read   *)
(* beyond it are left in the buffer, and the Request returned is the one   *)
(* the message alone gives, whatever follows it in the stream.             *)
(***************************************************************************)
C37_DoneStops_P ==
    /\ [](req.state = requestStateDone => pc = "returned")
    /\ [][pc = "loop" /\ req.state # requestStateDone]_vars
    /\ [](ReturnedDone =>
            /\ input.rlTerm /\ input.blank
            /\ Consumed = HeadEnd(input)
            /\ buf = SubSeq(data, HeadEnd(input) + 1, pos)
            /\ req = parse(newRequest, HeadBytes).r
            /\ req.RequestLine = StoredLine(input))

\* Done was reached by a Read that also brought bytes from beyond the blank
\* line.
C37_Witness ==
    /\ ReturnedDone
    /\ buf # <<>>
    /\ Len(input.fields) > 0

\* parseRequestLine accepted a line: only then is a version stored.
LineAccepted == req.RequestLine.HttpVersion # <<>>

(***************************************************************************)
(* C38.  A request line that parseRequestLine accepted has a Method and a  *)
(* RequestTarget that are not empty.                                       *)
(***************************************************************************)
C38_MethodAndTargetNotEmpty ==
    LineAccepted => (req.RequestLine.Method # <<>> /\ req.RequestLine.RequestTarget # <<>>)

\* What is enforced: the two spaces, the version, and upper-case letters in
\* whatever bytes the method has.
AcceptedLineShape ==
    LineAccepted =>
        /\ input.rlTerm /\ Len(input.parts) >= 3
        /\ req.RequestLine.HttpVersion = <<49, 46, 49>>
        /\ IsUpperAlpha(req.RequestLine.Method)

\* The header lines a connection received whose name is Content-Type, in any
\* letter case.
ContentTypeLines(c) ==
    {l \in conns[c].out.fields :
        /\ Len(l) > Len(KeyContentType)
        /\ SameName(SubSeq(l, 1, Len(KeyContentType)), KeyContentType)
        /\ l[Len(KeyContentType) + 1] = 58}

\* The map the handler hands to WriteHeaders for a body of n bytes.
HandlerHeaders(n) == HeadersSet(GetDefaultHeaders(n), KeyContentType, ValTextHtml)

(***************************************************************************)
(* C39.  The map built by GetDefaultHeaders and then Set("Content-Type",   *)
(* "text/html") holds no two keys that are equal but for letter case, and  *)
(* a response the handler wrote carries exactly one Content-Type header    *)
(* line, the one with the value set.                                       *)
(***************************************************************************)
C39_SingleContentType ==
    \A c \in ConnIds : conns[c].handled > 0 =>
        /\ \A k1, k2 \in DOMAIN HandlerHeaders(Len(conns[c].out.body)).m :
               SameName(k1, k2) => k1 = k2
        /\ ContentTypeLines(c) = {headerLine(KeyContentType, ValTextHtml)}

\* What the response does carry: both Content-Type lines, the default one
\* under the key as GetDefaultHeaders wrote it and the one Set stored under
\* the lower-cased key.
BothContentTypeLines ==
    \A c \in ConnIds : conns[c].handled > 0 =>
        ContentTypeLines(c) = {headerLine(KeyContentType, ValTextPlain),
                               headerLine(ToLower(KeyContentType), ValTextHtml)}

\* The whole pieces of one part among the pieces received.
WholePieces(part) == {i \in 1..Len(sent) : sent[i].part = part /\ sent[i].whole}
\* The call made in this step succeeded.
Succeeds(op) == IsWriterCall /\ wret'.op = op /\ wret'.err = NoError

(***************************************************************************)
(* C40.  The state of a Writer only moves forward and one phase at a time: *)
(* a step leaves it as it is, or takes it from StatusPending to            *)
(* HeadersPending by a WriteStatusLine that succeeds, or from              *)
(* HeadersPending to BodyPending by a WriteHeaders that succeeds.  So on   *)
(* one Writer at most one WriteStatusLine and at most one WriteHeaders     *)
(* succeed: a second one finds the state past its phase and fails.         *)
(* WriteBody succeeds in BodyPending as often as it is called (it fails    *)
(* there only when the underlying Write fails), leaves the state alone and *)
(* appends its bytes after all that was written before.                    *)
(***************************************************************************)
C40_PhaseForwardOnly_P ==
    /\ [](wstate \in {StateStatusPending, StateHeadersPending, StateBodyPending})
    /\ [][\/ wstate' = wstate
          \/ wstate = StateStatusPending /\ wstate' = StateHeadersPending
                /\ Succeeds("WriteStatusLine")
          \/ wstate = StateHeadersPending /\ wstate' = StateBodyPending
                /\ Succeeds("WriteHeaders")]_vars
    /\ [][/\ Succeeds("WriteStatusLine") =>
                (wstate = StateStatusPending /\ wstate' = StateHeadersPending)
          /\ Succeeds("WriteHeaders") =>
                (wstate = StateHeadersPending /\ wstate' = StateBodyPending)]_vars
    /\ [](Cardinality(WholePieces("status")) <= 1 /\ Cardinality(WholePieces("blank")) <= 1)
    /\ [][(IsWriterCall /\ wret'.op = "WriteBody" /\ wstate = StateBodyPending) =>
             /\ wret'.err \in {NoError, WriteFailure}
             /\ wstate' = wstate
             /\ SubSeq(sent', 1, Len(sent)) = sent
             /\ wret'.err = NoError =>
                   (wret'.n = 0 /\ sent' = sent)
                     \/ (/\ Len(sent') = Len(sent) + 1
                         /\ sent'[Len(sent')].part = "body" /\ sent'[Len(sent')].whole
                         /\ Len(sent'[Len(sent')].bytes) = wret'.n)]_vars

\* After the status line and the headers, two WriteBody calls succeeded, and
\* the second body follows the first.
C40_Witness ==
    /\ wstate = StateBodyPending
    /\ wret.op = "WriteBody" /\ wret.err = NoError
    /\ Cardinality(WholePieces("status")) = 1
    /\ Cardinality(WholePieces("blank")) = 1
    /\ Cardinality(WholePieces("body")) = 2
    /\ Len(sent) >= 2 /\ sent[Len(sent)].part = "body" /\ sent[Len(sent) - 1].part = "body"

====
